---- MODULE Spec2Model ----
(***************************************************************************)
(* Wallet health score: the extraction job tracker of the API              *)
(* (api/app/main.py), the ETL pipeline orchestrator and its scorers        *)
(* (wallet_etl/pipeline/daily_job.py) and the relational store             *)
(* (wallet_etl/storage/postgres_store.py), as state machines.              *)
(*                                                                         *)
(* Spec              the job tracker: concurrent extract_wallet requests   *)
(*                   and the background workers they start.                *)
(* SpecTransactions  any sequence of insert_transactions calls.            *)
(* SpecWallets       any sequence of upsert_wallets calls.                 *)
(* SpecPositions     any sequence of upsert_positions calls.               *)
(* SpecPipe          calls of run_wallet_pipeline, step by step, with the  *)
(*                   clock advancing and any step raising.                 *)
(* SpecFetch         a call of an AlchemyClient fetch method, one response *)
(*                   at a time (wallet_etl/clients/alchemy.py).            *)
(* SpecScores        a call of calculate_scores on any of a set of         *)
(*                   transfer and position lists.                          *)
(* SpecScheduled     Spec with every worker thread scheduled.              *)
(* SpecJobPipe       one client, with each worker running the pipeline of  *)
(*                   SpecPipe for its job's address.                       *)
(* SpecLargeTx       the large-transfer count of calculate_risk_score in   *)
(*                   double-precision floating point.                      *)
(* SpecEdge          Spec with request addresses at the edge of the        *)
(*                   address format.                                       *)
(***************************************************************************)
EXTENDS Integers, Sequences, FiniteSets, TLC

VARIABLES
    jobs,       \* table extraction_jobs, in insertion (created_at) order; the id is the index
    workers,    \* one background thread per created job: where it is in _run_etl_background
    req,        \* per request thread: where it is in extract_wallet
    resp,       \* the HTTP response returned last: status code, the job's id and status,
                \* and which return statement produced it
    wallets,        \* table wallets: a set of rows
    transactions,   \* table transactions: a set of rows
    positions,      \* table positions: a set of rows
    walletLog,      \* every row handed to upsert_wallets so far, in order
    txLog,          \* every row handed to insert_transactions so far, in order
    posLog,         \* every row handed to upsert_positions so far, in order
    clock,          \* the wall clock, datetime.now(timezone.utc)
    upstream,       \* what Alchemy holds for the wallet: its transfers and balances
    raw,            \* the MinIO bucket: a set of objects [key, body]
    features,       \* table features_daily: a set of rows
    run,            \* the call of run_wallet_pipeline: where it is and its locals
    fetch,          \* the call of an AlchemyClient fetch method: where it is and its locals
    calc            \* the call of calculate_scores: its arguments and what it returned

jobVars == <<jobs, workers, req, resp>>

storeVars == <<wallets, transactions, positions>>

logVars == <<walletLog, txLog, posLog>>

pipeVars == <<clock, upstream, raw, features, run>>

callVars == <<fetch, calc>>

vars == <<jobs, workers, req, resp, wallets, transactions, positions,
          walletLog, txLog, posLog, clock, upstream, raw, features, run, fetch, calc>>

(***************************************************************************)
(* Values                                                                  *)
(***************************************************************************)

\* Python None / SQL NULL is the empty tuple, a present value x is <<x>>.
None == <<>>

Some(x) == <<x>>

Max(a, b) == IF a >= b THEN a ELSE b

Min(a, b) == IF a <= b THEN a ELSE b

(***************************************************************************)
(* Addresses: strings, as tuples of characters                             *)
(***************************************************************************)

\* The number of hexadecimal characters after "0x" that the pattern asks for.
AddrHexLen == 40

HexChars ==
    {"0", "1", "2", "3", "4", "5", "6", "7", "8", "9",
     "a", "b", "c", "d", "e", "f", "A", "B", "C", "D", "E", "F"}

\* str.lower() / SQL LOWER() on one character (the letters the model uses).
LowerChar(c) ==
    CASE c = "A" -> "a" [] c = "B" -> "b" [] c = "C" -> "c" [] c = "D" -> "d"
      [] c = "E" -> "e" [] c = "F" -> "f" [] c = "G" -> "g" [] c = "X" -> "x"
      [] OTHER -> c

Lower(s) == [i \in DOMAIN s |-> LowerChar(s[i])]

\* re.match(r"^0x[a-fA-F0-9]{40}$", address): "$" also matches just before a
\* newline that ends the string.
IsValidEthAddress(address) ==
    LET n == Len(address)
        body == IF n > 0 /\ address[n] = "\n" THEN n - 1 ELSE n
    IN  /\ body = 2 + AddrHexLen
        /\ address[1] = "0"
        /\ address[2] = "x"
        /\ \A i \in 3..body : address[i] \in HexChars

\* "0x" followed by n copies of the character c.
MkAddr(c, n) == <<"0", "x">> \o [i \in 1..n |-> c]

AddrA == MkAddr("a", AddrHexLen)

AddrAUpper == MkAddr("A", AddrHexLen)

AddrB == MkAddr("b", AddrHexLen)

AddrNotHex == MkAddr("g", AddrHexLen)

AddrShort == MkAddr("a", AddrHexLen - 1)

\* The addresses requests arrive with.
RequestAddresses == {AddrA, AddrAUpper, AddrB, AddrNotHex, AddrShort}

(***************************************************************************)
(* Bounds                                                                  *)
(***************************************************************************)

\* Concurrent request threads of the API server.
NumThreads == 2

\* Extraction jobs created in one behaviour.
MaxJobs == 2

Threads == 1..NumThreads

(***************************************************************************)
(* Table extraction_jobs                                                   *)
(***************************************************************************)

InFlight == {"pending", "processing"}

Terminal == {"completed", "failed"}

\* INSERT INTO extraction_jobs (address, status) VALUES (%s, 'pending')
\* RETURNING ...: the new table and the new row's id.
CreateExtractionJob(table, address) ==
    Append(table, [address |-> address, status |-> "pending", error_message |-> None])

\* UPDATE extraction_jobs SET status = %s, error_message = %s WHERE id = %s
UpdateExtractionJob(table, job_id, status, error_message) ==
    [table EXCEPT ![job_id] = [@ EXCEPT !.status = status,
                                        !.error_message = error_message]]

\* A lookup that compares the address as written (WHERE address = %s).
GetLatestExtractionJobExact(table, address) ==
    LET ids == {j \in DOMAIN table : table[j].address = address}
    IN  IF ids = {} THEN 0 ELSE CHOOSE j \in ids : \A k \in ids : k <= j

\* SELECT ... WHERE LOWER(address) = LOWER(%s) ORDER BY created_at DESC LIMIT 1:
\* the id of the row, 0 when there is none.
GetLatestExtractionJob(table, address) ==
    LET ids == {j \in DOMAIN table : Lower(table[j].address) = Lower(address)}
    IN  IF ids = {} THEN 0 ELSE CHOOSE j \in ids : \A k \in ids : k <= j

(***************************************************************************)
(* extract_wallet: POST /extract/{address}                                 *)
(***************************************************************************)

Idle == [pc |-> "idle", address |-> <<>>]

\* The request arrives and the address is validated.
ExtractValidate(t, address) ==
    /\ req[t].pc = "idle"
    /\ IF IsValidEthAddress(address)
         THEN /\ req' = [req EXCEPT ![t] = [pc |-> "check", address |-> address]]
              /\ resp' = resp
         ELSE /\ req' = req
              /\ resp' = [code |-> 400, job |-> 0, status |-> "", ret |-> "invalid"]
    /\ UNCHANGED <<jobs, workers, storeVars, logVars, pipeVars, callVars>>

\* existing_job = pg_store.get_latest_extraction_job(address), and the early
\* return when that job is pending or processing.
ExtractCheck(t) ==
    /\ req[t].pc = "check"
    /\ LET existing_job == GetLatestExtractionJob(jobs, req[t].address)
       IN  IF existing_job # 0 /\ jobs[existing_job].status \in {"pending", "processing"}
             THEN /\ resp' = [code |-> 202, job |-> existing_job,
                                   status |-> jobs[existing_job].status, ret |-> "existing"]
                  /\ req' = [req EXCEPT ![t] = Idle]
             ELSE /\ req' = [req EXCEPT ![t].pc = "create"]
                  /\ resp' = resp
    /\ UNCHANGED <<jobs, workers, storeVars, logVars, pipeVars, callVars>>

\* The thread of a job: its position, the exception it caught, the pipeline calls it
\* made, and whether a pipeline call raised.
NewWorker == [pc |-> "start", exc |-> None, calls |-> 0, raised |-> FALSE]

\* job = pg_store.create_extraction_job(address); thread.start(); return job.
ExtractCreate(t) ==
    /\ req[t].pc = "create"
    /\ Len(jobs) < MaxJobs
    /\ jobs' = CreateExtractionJob(jobs, req[t].address)
    /\ workers' = Append(workers, NewWorker)
    /\ resp' = [code |-> 202, job |-> Len(jobs) + 1, status |-> "pending", ret |-> "created"]
    /\ req' = [req EXCEPT ![t] = Idle]
    /\ UNCHANGED <<storeVars, logVars, pipeVars, callVars>>

(***************************************************************************)
(* _run_etl_background(job_id, address)                                    *)
(***************************************************************************)

\* What a failing status write raises.
DbError == [type |-> "OperationalError", msg |-> "connection refused"]

\* What run_wallet_pipeline([address]) raises when it fails.
PipelineErrors ==
    {[type |-> "RuntimeError", msg |-> "Alchemy API error: rate limited"],
     [type |-> "KeyError", msg |-> ""]}

\* error_msg = f"{type(exc).__name__}: {exc}"
ErrorMsg(exc) == exc.type \o ": " \o exc.msg

\* try: pg_store.update_extraction_job(job_id, "processing")
WorkerMarkProcessing(j) ==
    /\ workers[j].pc = "start"
    /\ \/ /\ jobs' = UpdateExtractionJob(jobs, j, "processing", None)
          /\ workers' = [workers EXCEPT ![j].pc = "run"]
       \/ /\ jobs' = jobs
          /\ workers' = [workers EXCEPT ![j].pc = "except", ![j].exc = Some(DbError)]
    /\ UNCHANGED <<req, resp, storeVars, logVars, pipeVars, callVars>>

\* run_wallet_pipeline([address]) returns or raises.
WorkerRunPipeline(j) ==
    /\ workers[j].pc = "run"
    /\ \/ workers' = [workers EXCEPT ![j].pc = "ran", ![j].calls = @ + 1]
       \/ \E e \in PipelineErrors :
              workers' = [workers EXCEPT ![j].pc = "except", ![j].exc = Some(e),
                                         ![j].calls = @ + 1, ![j].raised = TRUE]
    /\ UNCHANGED <<jobs, req, resp, storeVars, logVars, pipeVars, callVars>>

\* pg_store.update_extraction_job(job_id, "completed"), still inside the try.
WorkerMarkCompleted(j) ==
    /\ workers[j].pc = "ran"
    /\ \/ /\ jobs' = UpdateExtractionJob(jobs, j, "completed", None)
          /\ workers' = [workers EXCEPT ![j].pc = "done"]
       \/ /\ jobs' = jobs
          /\ workers' = [workers EXCEPT ![j].pc = "except", ![j].exc = Some(DbError)]
    /\ UNCHANGED <<req, resp, storeVars, logVars, pipeVars, callVars>>

\* except Exception as exc: pg_store.update_extraction_job(job_id, "failed",
\* error_message=error_msg). An exception of this write is caught by nobody:
\* the thread dies.
WorkerMarkFailed(j) ==
    /\ workers[j].pc = "except"
    /\ \/ /\ jobs' = UpdateExtractionJob(jobs, j, "failed", Some(ErrorMsg(workers[j].exc[1])))
          /\ workers' = [workers EXCEPT ![j].pc = "done", ![j].exc = None]
       \/ /\ jobs' = jobs
          /\ workers' = [workers EXCEPT ![j].pc = "dead", ![j].exc = Some(DbError)]
    /\ UNCHANGED <<req, resp, storeVars, logVars, pipeVars, callVars>>

(***************************************************************************)
(* The job tracker                                                         *)
(***************************************************************************)

\* No job, no request in progress, no response yet.
InitJobs ==
    /\ jobs = <<>>
    /\ workers = <<>>
    /\ req = [t \in Threads |-> Idle]
    /\ resp = [code |-> 0, job |-> 0, status |-> "", ret |-> ""]

\* Empty tables.
InitStore ==
    /\ wallets = {}
    /\ transactions = {}
    /\ positions = {}
    /\ walletLog = <<>>
    /\ txLog = <<>>
    /\ posLog = <<>>

\* Instants are whole ticks; a UTC day has TicksPerDay of them.
TicksPerDay == 2

\* timedelta(days=n)
Days(n) == n * TicksPerDay

\* The day on which the clock starts.
StartDay == 1000

\* The first instant of StartDay.
Clock0 == Days(StartDay)

\* A wallet that has neither transfers nor token balances.
NoFeed == [transfers |-> <<>>, balances |-> <<>>]

\* No call of run_wallet_pipeline has been made.
IdleRun ==
    [pc |-> "idle", addrs |-> <<>>, i |-> 0, transactions |-> <<>>, positions |-> <<>>,
     raw_key_prefix |-> 0, now |-> 0, scores |-> None, exc |-> None, done |-> {},
     calls |-> 0]

\* The stores are empty and the pipeline is not running.
InitPipeIdle ==
    /\ clock = Clock0
    /\ upstream = NoFeed
    /\ raw = {}
    /\ features = {}
    /\ run = IdleRun

\* No fetch method of the Alchemy client has been called.
IdleFetch ==
    [pc |-> "idle", method |-> "", page_key |-> None, all_transactions |-> <<>>,
     seen |-> <<>>, ret |-> None, exc |-> None]

\* calculate_scores has not been called.
IdleCalc ==
    [pc |-> "idle", transactions |-> <<>>, positions |-> <<>>, now |-> 0,
     locals |-> None, result |-> None, exc |-> None]

\* No client call and no scoring call is in progress.
InitCalls ==
    /\ fetch = IdleFetch
    /\ calc = IdleCalc

Init == InitJobs /\ InitStore /\ InitPipeIdle /\ InitCalls

Next ==
    \/ \E t \in Threads, a \in RequestAddresses : ExtractValidate(t, a)
    \/ \E t \in Threads : ExtractCheck(t)
    \/ \E t \in Threads : ExtractCreate(t)
    \/ \E j \in DOMAIN workers : WorkerMarkProcessing(j)
    \/ \E j \in DOMAIN workers : WorkerRunPipeline(j)
    \/ \E j \in DOMAIN workers : WorkerMarkCompleted(j)
    \/ \E j \in DOMAIN workers : WorkerMarkFailed(j)

Spec == Init /\ [][Next]_vars

(***************************************************************************)
(* Properties of the job tracker                                           *)
(***************************************************************************)

\* Two characters that are the same letter in either case.
SameLetter(c, d) ==
    \/ c = d
    \/ {c, d} \in {{"a", "A"}, {"b", "B"}, {"c", "C"}, {"d", "D"}, {"e", "E"}, {"f", "F"}}

\* Two addresses that name one wallet: equal up to letter case.
SameWallet(x, y) ==
    /\ Len(x) = Len(y)
    /\ \A i \in 1..Len(x) : SameLetter(x[i], y[i])

\* The jobs of the wallet that `address` names.
JobsOf(address) == {j \in DOMAIN jobs : SameWallet(jobs[j].address, address)}

\* The wallet has a job and the newest one is pending or processing.
Busy(address) ==
    /\ JobsOf(address) # {}
    /\ \E j \in JobsOf(address) :
           /\ \A k \in JobsOf(address) : k <= j
           /\ jobs[j].status \in InFlight

\* C1: under any interleaving of concurrent extract_wallet requests for one
\* address, at most one job of that address is pending or processing.
C1_OneInFlightJobPerAddress ==
    \A j, k \in DOMAIN jobs :
        (/\ jobs[j].address = jobs[k].address
         /\ jobs[j].status \in InFlight
         /\ jobs[k].status \in InFlight) => j = k

\* C2: when the request's check finds the wallet's newest job pending or
\* processing, the request returns that job's id, adds no job row and starts no
\* worker; the request goes on to create a job only when the wallet has no job
\* or its newest job is completed or failed, and a job row appears only from
\* such a request, as one pending row with one new worker.
C2_DuplicateTriggerReturnsExisting ==
    [][/\ \A t \in Threads :
             (req[t].pc = "check" /\ req'[t].pc # "check") =>
                 IF Busy(req[t].address)
                   THEN /\ resp'.code = 202
                        /\ resp'.ret = "existing"
                        /\ resp'.job \in JobsOf(req[t].address)
                        /\ \A k \in JobsOf(req[t].address) : k <= resp'.job
                        /\ resp'.status = jobs[resp'.job].status
                        /\ jobs' = jobs
                        /\ workers' = workers
                        /\ req'[t].pc = "idle"
                   ELSE req'[t].pc = "create"
       /\ Len(jobs') # Len(jobs) =>
             \E t \in Threads :
                 /\ req[t].pc = "create"
                 /\ req'[t].pc = "idle"
                 /\ Len(jobs') = Len(jobs) + 1
                 /\ Len(workers') = Len(workers) + 1
                 /\ jobs'[Len(jobs')].address = req[t].address
                 /\ jobs'[Len(jobs')].status = "pending"
                 /\ resp' = [code |-> 202, job |-> Len(jobs'), status |-> "pending",
                             ret |-> "created"]
      ]_vars

\* A request was answered with the existing job of its wallet while that job
\* was being processed, and no second job exists.
C2_Witness ==
    /\ resp.ret = "existing"
    /\ resp.job = 1
    /\ resp.status = "processing"
    /\ Len(jobs) = 1
    /\ jobs[1].status = "processing"

\* C3: a job's status changes only pending -> processing, processing ->
\* completed or processing -> failed, whatever the worker meets.
C3_StatusTransitions ==
    [][\A j \in DOMAIN jobs :
          jobs'[j].status # jobs[j].status =>
              <<jobs[j].status, jobs'[j].status>> \in
                  {<<"pending", "processing">>,
                   <<"processing", "completed">>,
                   <<"processing", "failed">>}]_vars

\* C4: once the worker of a job whose pipeline call raised has ended, the job
\* is failed with a non-empty error_message, and the pipeline was called once.
C4_PipelineFailureRecorded ==
    \A j \in DOMAIN workers :
        (workers[j].raised /\ workers[j].pc \in {"done", "dead"}) =>
            /\ jobs[j].status = "failed"
            /\ jobs[j].error_message # None
            /\ Len(jobs[j].error_message[1]) > 0
            /\ workers[j].calls = 1

(***************************************************************************)
(* The relational store (wallet_etl/storage/postgres_store.py)             *)
(***************************************************************************)

\* Rows handed to the store in one behaviour (per table).
MaxRows == 3

\* Rows of one call (execute_batch runs the statement once per row).
MaxBatch == 2

\* Timestamps the rows carry are 1..MaxStoreTime.
MaxStoreTime == 2

StoreTimes == 1..MaxStoreTime

\* Lists of 0..MaxBatch rows drawn from `pool`.
Batches(pool) == UNION {[1..n -> pool] : n \in 0..MaxBatch}

\* SQL COALESCE(a, b).
Coalesce(a, b) == IF a # None THEN a ELSE b

\* SQL LEAST(a, b): NULL arguments are ignored.
Least(a, b) ==
    IF a = None THEN b
    ELSE IF b = None THEN a
    ELSE IF a[1] <= b[1] THEN a ELSE b

\* SQL GREATEST(a, b): NULL arguments are ignored.
Greatest(a, b) ==
    IF a = None THEN b
    ELSE IF b = None THEN a
    ELSE IF a[1] >= b[1] THEN a ELSE b

\* ---- wallets ----

\* ON CONFLICT (address) DO UPDATE that takes the new row's watermark as it is.
UpsertWalletRowOverwrite(table, row) ==
    IF \E w \in table : w.address = row.address
      THEN {IF w.address = row.address THEN row ELSE w : w \in table}
      ELSE table \cup {row}

\* INSERT INTO wallets ... ON CONFLICT (address) DO UPDATE SET chain, first_seen =
\* LEAST(COALESCE(wallets.first_seen, EXCLUDED.first_seen), EXCLUDED.first_seen),
\* last_seen = GREATEST(COALESCE(...), EXCLUDED.last_seen), tags; for one row.
UpsertWalletRow(table, row) ==
    IF \E w \in table : w.address = row.address
      THEN {IF w.address = row.address
              THEN [w EXCEPT
                      !.chain = row.chain,
                      !.first_seen = Least(Coalesce(w.first_seen, row.first_seen),
                                           row.first_seen),
                      !.last_seen = Greatest(Coalesce(w.last_seen, row.last_seen),
                                             row.last_seen),
                      !.tags = row.tags]
              ELSE w : w \in table}
      ELSE table \cup {row}

RECURSIVE UpsertWallets(_, _)
\* upsert_wallets(rows): the statement, once per row, in order.
UpsertWallets(table, rows) ==
    IF rows = <<>> THEN table
    ELSE UpsertWallets(UpsertWalletRow(table, Head(rows)), Tail(rows))

\* ---- transactions ----

\* ON CONFLICT (hash) DO UPDATE: the later row replaces the stored one.
InsertTransactionRowOverwrite(table, row) ==
    {t \in table : t.hash # row.hash} \cup {row}

\* INSERT INTO transactions ... ON CONFLICT (hash) DO NOTHING; for one row.
InsertTransactionRow(table, row) ==
    IF \E t \in table : t.hash = row.hash THEN table ELSE table \cup {row}

RECURSIVE InsertTransactions(_, _)
\* insert_transactions(rows)
InsertTransactions(table, rows) ==
    IF rows = <<>> THEN table
    ELSE InsertTransactions(InsertTransactionRow(table, Head(rows)), Tail(rows))

\* ---- positions ----

\* The conflict target (address, token, COALESCE(protocol, '')).
PositionKey(row) == <<row.address, row.token, Coalesce(row.protocol, Some(""))>>

\* INSERT INTO positions ... ON CONFLICT (address, token, COALESCE(protocol, ''))
\* DO UPDATE SET balance, usd_value, last_updated, raw_payload; for one row.
UpsertPositionRow(table, row) ==
    IF \E q \in table : PositionKey(q) = PositionKey(row)
      THEN {IF PositionKey(q) = PositionKey(row)
              THEN [q EXCEPT !.balance = row.balance,
                             !.usd_value = row.usd_value,
                             !.last_updated = row.last_updated,
                             !.raw_payload = row.raw_payload]
              ELSE q : q \in table}
      ELSE table \cup {row}

RECURSIVE UpsertPositions(_, _)
\* upsert_positions(rows)
UpsertPositions(table, rows) ==
    IF rows = <<>> THEN table
    ELSE UpsertPositions(UpsertPositionRow(table, Head(rows)), Tail(rows))

\* ---- the rows the calls are made with ----

TxHashes == {"0xh1", "0xh2"}

TokenA == <<"0", "x", "t", "1">>

TokenB == <<"0", "x", "t", "2">>

WalletRows ==
    [address : {AddrA, AddrB}, chain : {"eth_mainnet"},
     first_seen : {None} \cup {Some(t) : t \in StoreTimes},
     last_seen : {None} \cup {Some(t) : t \in StoreTimes},
     tags : {<<>>}]

TransactionRows ==
    [hash : TxHashes, address : {AddrA, AddrB}, block_number : {None},
     timestamp : StoreTimes, gas_spent_usd : {None}, tx_type : {"external"},
     contracts_involved : {<<None>>}, raw_payload : {None}]

PositionRows ==
    [address : {AddrA}, token : {TokenA, TokenB}, protocol : {None, Some("aave")},
     balance : {10, 20}, usd_value : {None}, last_updated : StoreTimes,
     raw_payload : {None}]

\* ---- the calls ----

CallUpsertWallets(rows) ==
    /\ Len(walletLog) + Len(rows) <= MaxRows
    /\ wallets' = UpsertWallets(wallets, rows)
    /\ walletLog' = walletLog \o rows
    /\ UNCHANGED <<jobVars, transactions, positions, txLog, posLog, pipeVars, callVars>>

CallInsertTransactions(rows) ==
    /\ Len(txLog) + Len(rows) <= MaxRows
    /\ transactions' = InsertTransactions(transactions, rows)
    /\ txLog' = txLog \o rows
    /\ UNCHANGED <<jobVars, wallets, positions, walletLog, posLog, pipeVars, callVars>>

CallUpsertPositions(rows) ==
    /\ Len(posLog) + Len(rows) <= MaxRows
    /\ positions' = UpsertPositions(positions, rows)
    /\ posLog' = posLog \o rows
    /\ UNCHANGED <<jobVars, wallets, transactions, walletLog, txLog, pipeVars, callVars>>

NextWallets == \E rows \in Batches(WalletRows) : CallUpsertWallets(rows)

NextTransactions == \E rows \in Batches(TransactionRows) : CallInsertTransactions(rows)

NextPositions == \E rows \in Batches(PositionRows) : CallUpsertPositions(rows)

SpecWallets == Init /\ [][NextWallets]_vars

SpecTransactions == Init /\ [][NextTransactions]_vars

SpecPositions == Init /\ [][NextPositions]_vars

(***************************************************************************)
(* Properties of the store                                                 *)
(***************************************************************************)

\* The indices of a log.
Idx(log) == 1..Len(log)

\* C8: the table holds exactly one row per hash ever inserted, and it is the
\* first row that was inserted with that hash.
C8_OneRowPerHashFirstWins ==
    /\ \A r, q \in transactions : q.hash = r.hash => q = r
    /\ {r.hash : r \in transactions} = {txLog[i].hash : i \in Idx(txLog)}
    /\ \A i \in Idx(txLog) :
           (\A m \in 1..(i - 1) : txLog[m].hash # txLog[i].hash)
               => txLog[i] \in transactions

\* A hash was inserted twice, the second time with another payload and another
\* address, and the table holds the first row.
C8_Witness ==
    /\ Len(txLog) >= 2
    /\ txLog[1].hash = txLog[2].hash
    /\ txLog[1].timestamp # txLog[2].timestamp
    /\ txLog[1].address # txLog[2].address
    /\ txLog[1] \in transactions

\* The first_seen values supplied for an address so far.
SuppliedFirst(a) ==
    {walletLog[i].first_seen[1] : i \in {k \in Idx(walletLog) :
        walletLog[k].address = a /\ walletLog[k].first_seen # None}}

\* The last_seen values supplied for an address so far.
SuppliedLast(a) ==
    {walletLog[i].last_seen[1] : i \in {k \in Idx(walletLog) :
        walletLog[k].address = a /\ walletLog[k].last_seen # None}}

\* C9: for every address upserted, the one stored row has first_seen = the
\* minimum of the first_seen values supplied and last_seen = the maximum of the
\* last_seen values supplied (NULL while none was supplied).
C9_WatermarkWidens ==
    \A i \in Idx(walletLog) :
        LET a == walletLog[i].address
        IN  \E w \in wallets :
                /\ w.address = a
                /\ \A v \in wallets : v.address = a => v = w
                /\ IF SuppliedFirst(a) = {} THEN w.first_seen = None
                   ELSE /\ w.first_seen # None
                        /\ w.first_seen[1] \in SuppliedFirst(a)
                        /\ \A x \in SuppliedFirst(a) : w.first_seen[1] <= x
                /\ IF SuppliedLast(a) = {} THEN w.last_seen = None
                   ELSE /\ w.last_seen # None
                        /\ w.last_seen[1] \in SuppliedLast(a)
                        /\ \A x \in SuppliedLast(a) : w.last_seen[1] >= x

\* A wallet seeded with first_seen 2 was then upserted with the earlier
\* first_seen 1 and a later upsert supplied 2 again: the stored value is 1.
C9_Witness ==
    /\ Len(walletLog) = 3
    /\ \A i \in 1..3 : walletLog[i].address = AddrA
    /\ walletLog[1].first_seen = Some(2) /\ walletLog[1].last_seen = Some(2)
    /\ walletLog[2].first_seen = Some(1) /\ walletLog[2].last_seen = Some(1)
    /\ walletLog[3].first_seen = Some(2) /\ walletLog[3].last_seen = None
    /\ \E w \in wallets : w.first_seen = Some(1) /\ w.last_seen = Some(2)

\* C10: per (address, token, protocol) there is at most one row, and it
\* carries the greatest last_updated (observed_at) of the rows written for it.
C10_LatestObservationWins ==
    \A i \in Idx(posLog) :
        LET key == <<posLog[i].address, posLog[i].token, posLog[i].protocol>>
            rows == {q \in positions : <<q.address, q.token, q.protocol>> = key}
        IN  /\ Cardinality(rows) = 1
            /\ \A q \in rows : \A k \in Idx(posLog) :
                   <<posLog[k].address, posLog[k].token, posLog[k].protocol>> = key
                       => posLog[k].last_updated <= q.last_updated

(***************************************************************************)
(* Time and numbers                                                        *)
(***************************************************************************)

\* timedelta.days of a difference of instants, and datetime.date() of an
\* instant: the whole days, rounded towards minus infinity.
WholeDays(ticks) == ticks \div TicksPerDay

\* Exact fractions <<numerator, denominator>>, denominator > 0, for the
\* scorers' float arithmetic.
Q(n, d) == <<n, d>>

RECURSIVE Gcd(_, _)
Gcd(a, b) == IF b = 0 THEN a ELSE Gcd(b, a % b)

\* The fraction in lowest terms.
QNorm(q) ==
    LET a == IF q[1] < 0 THEN -q[1] ELSE q[1]
        g == Gcd(a, q[2])
    IN  <<q[1] \div g, q[2] \div g>>

QAdd(a, b) == QNorm(<<a[1] * b[2] + b[1] * a[2], a[2] * b[2]>>)

QSub(a, b) == QNorm(<<a[1] * b[2] - b[1] * a[2], a[2] * b[2]>>)

QMul(a, b) == QNorm(<<a[1] * b[1], a[2] * b[2]>>)

QLe(a, b) == a[1] * b[2] <= b[1] * a[2]

QMin(a, b) == IF QLe(a, b) THEN a ELSE b

QMax(a, b) == IF QLe(a, b) THEN b ELSE a

\* max(0.0, min(1.0, x))
Clamp01(x) == QMax(Q(0, 1), QMin(Q(1, 1), x))

\* round(x, digits) as the integer x * 10^digits, ties to even; `scale` is
\* 10^digits.
RoundScaled(q, scale) ==
    LET n == q[1] * scale
        fl == n \div q[2]
        twice == 2 * (n - fl * q[2])
    IN  IF twice < q[2] THEN fl
        ELSE IF twice > q[2] THEN fl + 1
        ELSE IF fl % 2 = 0 THEN fl ELSE fl + 1

\* The value cut after the fourth decimal place.
Round4Truncate(q) == (q[1] * 10000) \div q[2]

\* round(x, 4): scores are stored as multiples of 0.0001.
Round4(q) == RoundScaled(q, 10000)

\* round(x, 3)
Round3(q) == RoundScaled(q, 1000)

RECURSIVE SumSeq(_)
SumSeq(seq) == IF seq = <<>> THEN 0 ELSE Head(seq) + SumSeq(Tail(seq))

RECURSIVE InsertSorted(_, _)
InsertSorted(x, seq) ==
    IF seq = <<>> THEN <<x>>
    ELSE IF x <= Head(seq) THEN <<x>> \o seq
    ELSE <<Head(seq)>> \o InsertSorted(x, Tail(seq))

RECURSIVE Sorted(_)
\* sorted(list) of integers, ascending.
Sorted(seq) == IF seq = <<>> THEN <<>> ELSE InsertSorted(Head(seq), Sorted(Tail(seq)))

\* `sub in s` for strings.
Contains(s, sub) ==
    \E i \in 1..(Len(s) - Len(sub) + 1) : SubSeq(s, i, i + Len(sub) - 1) = sub

(***************************************************************************)
(* Normalizer (daily_job.py)                                               *)
(***************************************************************************)

\* JSON values of the upstream payloads.
JNull == [t |-> "null"]

JStr(s) == [t |-> "str", s |-> s]

JNum(n) == [t |-> "num", n |-> n]

Ok(v) == [ok |-> TRUE, v |-> v]

Err(type) == [ok |-> FALSE, exc |-> type]

HexDigits ==
    <<"0", "1", "2", "3", "4", "5", "6", "7", "8", "9", "a", "b", "c", "d", "e", "f">>

\* The value of one digit in the given base, -1 when it is none.
DigitValue(c, base) ==
    LET hits == {i \in 1..base : HexDigits[i] = LowerChar(c)}
    IN  IF hits = {} THEN -1 ELSE (CHOOSE i \in hits : TRUE) - 1

RECURSIVE DigitsValue(_, _, _)
\* The number written by the digits, most significant first, after `acc`.
DigitsValue(digits, base, acc) ==
    IF digits = <<>> THEN acc
    ELSE DigitsValue(Tail(digits), base, acc * base + DigitValue(Head(digits), base))

\* int(s, base) for an unsigned literal; with base 16 a "0x" prefix is allowed.
ParseInt(s, base) ==
    LET prefixed == base = 16 /\ Len(s) >= 2 /\ s[1] = "0" /\ LowerChar(s[2]) = "x"
        digits == IF prefixed THEN SubSeq(s, 3, Len(s)) ELSE s
    IN  IF digits = <<>> \/ \E i \in 1..Len(digits) : DigitValue(digits[i], base) < 0
          THEN Err("ValueError")
          ELSE Ok(DigitsValue(digits, base, 0))

\* _parse_balance(val)
ParseBalance(val) ==
    IF val.t = "null" THEN Ok(0)
    ELSE IF val.t = "num" THEN Ok(val.n)
    ELSE IF Len(val.s) >= 2 /\ val.s[1] = "0" /\ val.s[2] = "x" THEN ParseInt(val.s, 16)
    ELSE ParseInt(val.s, 10)

\* _parse_value(val): 0.0 for None and for anything that is no number.
ParseValue(val) == IF val.t = "num" THEN val.n ELSE 0

(***************************************************************************)
(* Scorers (daily_job.py). A transfer is [hash, ts, value, category,       *)
(* contract], a position is [contractAddress, tokenBalance]; a score is an *)
(* exact fraction.                                                         *)
(***************************************************************************)

STABLECOINS == {
    \* USDT
    <<"0", "x", "d", "a", "c", "1", "7", "f", "9", "5", "8", "d", "2", "e", "e", "5", "2", "3", "a", "2", "2", "0", "6", "2", "0", "6", "9", "9", "4", "5", "9", "7", "c", "1", "3", "d", "8", "3", "1", "e", "c", "7">>,
    \* USDC
    <<"0", "x", "a", "0", "b", "8", "6", "9", "9", "1", "c", "6", "2", "1", "8", "b", "3", "6", "c", "1", "d", "1", "9", "d", "4", "a", "2", "e", "9", "e", "b", "0", "c", "e", "3", "6", "0", "6", "e", "b", "4", "8">>,
    \* DAI
    <<"0", "x", "6", "b", "1", "7", "5", "4", "7", "4", "e", "8", "9", "0", "9", "4", "c", "4", "4", "d", "a", "9", "8", "b", "9", "5", "4", "e", "e", "d", "e", "a", "c", "4", "9", "5", "2", "7", "1", "d", "0", "f">>,
    \* BUSD
    <<"0", "x", "4", "f", "a", "b", "b", "1", "4", "5", "d", "6", "4", "6", "5", "2", "a", "9", "4", "8", "d", "7", "2", "5", "3", "3", "0", "2", "3", "f", "6", "e", "7", "a", "6", "2", "3", "c", "7", "c", "5", "3">>,
    \* TUSD
    <<"0", "x", "0", "0", "0", "0", "0", "0", "0", "0", "0", "0", "0", "8", "5", "d", "4", "7", "8", "0", "b", "7", "3", "1", "1", "9", "b", "6", "4", "4", "a", "e", "5", "e", "c", "d", "2", "2", "b", "3", "7", "6">>,
    \* USDP
    <<"0", "x", "8", "e", "8", "7", "0", "d", "6", "7", "f", "6", "6", "0", "d", "9", "5", "d", "5", "b", "e", "5", "3", "0", "3", "8", "0", "d", "0", "e", "c", "0", "b", "d", "3", "8", "8", "2", "8", "9", "e", "1">>,
    \* FEI
    <<"0", "x", "9", "5", "6", "f", "4", "7", "f", "5", "0", "a", "9", "1", "0", "1", "6", "3", "d", "8", "b", "f", "9", "5", "7", "c", "f", "5", "8", "4", "6", "d", "5", "7", "3", "e", "7", "f", "8", "7", "c", "a">>,
    \* FRAX
    <<"0", "x", "8", "5", "3", "d", "9", "5", "5", "a", "c", "e", "f", "8", "2", "2", "d", "b", "0", "5", "8", "e", "b", "8", "5", "0", "5", "9", "1", "1", "e", "d", "7", "7", "f", "1", "7", "5", "b", "9", "9", "e">>,
    \* LUSD
    <<"0", "x", "5", "f", "9", "8", "8", "0", "5", "a", "4", "e", "8", "b", "e", "2", "5", "5", "a", "3", "2", "8", "8", "0", "f", "d", "e", "c", "7", "f", "6", "7", "2", "8", "c", "6", "5", "6", "8", "b", "a", "0">>,
    \* sUSD
    <<"0", "x", "5", "7", "a", "b", "1", "e", "c", "2", "8", "d", "1", "2", "9", "7", "0", "7", "0", "5", "2", "d", "f", "4", "d", "f", "4", "1", "8", "d", "5", "8", "a", "2", "d", "4", "6", "d", "5", "f", "5", "1">>}

HIGH_RISK_INDICATORS ==
    {<<"m", "e", "m", "e">>,
     <<"s", "h", "i", "b">>,
     <<"d", "o", "g", "e">>,
     <<"p", "e", "p", "e">>,
     <<"f", "l", "o", "k", "i">>,
     <<"i", "n", "u">>,
     <<"e", "l", "o", "n">>,
     <<"m", "o", "o", "n">>,
     <<"s", "a", "f", "e">>}

\* [tx for tx in transactions if timestamp(tx) > now - timedelta(days=days)]
RecentTx(txs, now, days) == SelectSeq(txs, LAMBDA tx : tx.ts > now - Days(days))

\* [p for p in positions if _parse_balance(p.get("tokenBalance", 0)) > 0]
ActivePositions(held) ==
    SelectSeq(held, LAMBDA p : ParseBalance(p.tokenBalance).v > 0)

\* A scorer raises when a balance does not parse.
BalancesParse(held) ==
    \A i \in 1..Len(held) : ParseBalance(held[i].tokenBalance).ok

\* The scorer that counts the contracts as they are spelled.
ActivityScoreCaseSensitive(txs, now) ==
    LET recent_tx == RecentTx(txs, now, 30)
        contracts == {recent_tx[i].contract[1] :
                        i \in {k \in 1..Len(recent_tx) :
                                 /\ recent_tx[k].contract # None
                                 /\ recent_tx[k].contract[1] # <<>>}}
    IN  [score |-> QAdd(QMul(QMin(Q(Len(recent_tx), 10), Q(1, 1)), Q(6, 10)),
                        QMul(QMin(Q(Cardinality(contracts), 5), Q(1, 1)), Q(4, 10))),
         metrics |-> [recent_tx_count |-> Len(recent_tx),
                      unique_contracts_30d |-> Cardinality(contracts)]]

\* calculate_activity_score(transactions, now)
ActivityScore(txs, now) ==
    LET recent_tx == RecentTx(txs, now, 30)
        contracts == {Lower(recent_tx[i].contract[1]) :
                        i \in {k \in 1..Len(recent_tx) :
                                 /\ recent_tx[k].contract # None
                                 /\ recent_tx[k].contract[1] # <<>>}}
        tx_count_score == QMin(Q(Len(recent_tx), 10), Q(1, 1))
        contract_diversity == QMin(Q(Cardinality(contracts), 5), Q(1, 1))
    IN  [score |-> QAdd(QMul(tx_count_score, Q(6, 10)), QMul(contract_diversity, Q(4, 10))),
         metrics |-> [recent_tx_count |-> Len(recent_tx),
                      unique_contracts_30d |-> Cardinality(contracts)]]

\* The scorer that rewards the spread of a single token as well.
DiversificationScoreSingleSpread(held) ==
    LET num_tokens == Len(ActivePositions(held))
    IN  [score |-> QAdd(QMul(QMin(Q(num_tokens, 10), Q(1, 1)), Q(7, 10)),
                        QMul(QMin(Q(num_tokens, 20), Q(1, 1)), Q(3, 10))),
         metrics |-> [unique_tokens |-> num_tokens]]

\* calculate_diversification_score(positions)
DiversificationScore(held) ==
    LET num_tokens == Len(ActivePositions(held))
        token_count_score == QMin(Q(num_tokens, 10), Q(1, 1))
        concentration_score ==
            IF num_tokens > 1 THEN QMin(Q(num_tokens, 20), Q(1, 1)) ELSE Q(0, 1)
    IN  [score |-> QAdd(QMul(token_count_score, Q(7, 10)),
                        QMul(concentration_score, Q(3, 10))),
         metrics |-> [unique_tokens |-> num_tokens]]

\* The scorer that takes its ratios over all the positions it was given.
RiskScoreAllPositions(txs, held, now) ==
    LET active == ActivePositions(held)
        stablecoin_count ==
            Len(SelectSeq(active, LAMBDA p : Lower(p.contractAddress) \in STABLECOINS))
        high_risk_count ==
            Len(SelectSeq(active, LAMBDA p :
                \E ind \in HIGH_RISK_INDICATORS : Contains(Lower(p.contractAddress), ind)))
        recent_tx == RecentTx(txs, now, 30)
        tx_values == [i \in 1..Len(recent_tx) |-> ParseValue(recent_tx[i].value)]
        total == SumSeq(tx_values)
        large_txs ==
            IF total > 0
              THEN Len(SelectSeq(tx_values, LAMBDA v : v * Len(tx_values) > total * 10))
              ELSE 0
        large_tx_ratio == IF tx_values # <<>> THEN Q(large_txs, Len(tx_values)) ELSE Q(0, 1)
    IN  IF active = <<>>
          THEN [score |-> Q(5, 10),
                metrics |-> [stablecoin_ratio |-> 0, high_risk_tokens |-> 0]]
          ELSE [score |->
                    Clamp01(QSub(QSub(QAdd(Q(5, 10),
                                           QMul(Q(stablecoin_count, Len(held)), Q(4, 10))),
                                      QMul(Q(high_risk_count, Len(held)), Q(3, 10))),
                                 QMul(large_tx_ratio, Q(2, 10)))),
                metrics |-> [stablecoin_ratio |-> Round3(Q(stablecoin_count, Len(held))),
                             high_risk_tokens |-> high_risk_count,
                             stablecoin_count |-> stablecoin_count]]

\* calculate_risk_score(transactions, positions, now)
RiskScore(txs, held, now) ==
    LET active == ActivePositions(held)
        stablecoin_count ==
            Len(SelectSeq(active, LAMBDA p : Lower(p.contractAddress) \in STABLECOINS))
        high_risk_count ==
            Len(SelectSeq(active, LAMBDA p :
                \E ind \in HIGH_RISK_INDICATORS : Contains(Lower(p.contractAddress), ind)))
        total_tokens == Len(active)
        stablecoin_ratio == Q(stablecoin_count, total_tokens)
        high_risk_ratio == Q(high_risk_count, total_tokens)
        recent_tx == RecentTx(txs, now, 30)
        tx_values == [i \in 1..Len(recent_tx) |-> ParseValue(recent_tx[i].value)]
        total == SumSeq(tx_values)
        \* v > avg_value * 10, with avg_value = total / len(tx_values); for the
        \* whole-number values of these transfers the doubles compare as the
        \* numbers do (LargeTxs has the comparison in floating point)
        large_txs ==
            IF total > 0
              THEN Len(SelectSeq(tx_values, LAMBDA v : v * Len(tx_values) > total * 10))
              ELSE 0
        large_tx_ratio == IF tx_values # <<>> THEN Q(large_txs, Len(tx_values)) ELSE Q(0, 1)
        risk_score ==
            QSub(QSub(QAdd(Q(5, 10), QMul(stablecoin_ratio, Q(4, 10))),
                      QMul(high_risk_ratio, Q(3, 10))),
                 QMul(large_tx_ratio, Q(2, 10)))
    IN  IF active = <<>>
          THEN [score |-> Q(5, 10),
                metrics |-> [stablecoin_ratio |-> 0, high_risk_tokens |-> 0]]
          ELSE [score |-> Clamp01(risk_score),
                metrics |-> [stablecoin_ratio |-> Round3(stablecoin_ratio),
                             high_risk_tokens |-> high_risk_count,
                             stablecoin_count |-> stablecoin_count]]

\* The scorer with the neutral value 0.0 where there is nothing to judge.
ProfitabilityScoreZeroNeutral(txs, now) ==
    IF txs = <<>> \/ RecentTx(txs, now, 90) = <<>>
      THEN [score |-> Q(0, 1), metrics |-> [net_flow |-> 0, avg_value |-> 0]]
      ELSE LET n == Len(RecentTx(txs, now, 90))
           IN  [score |-> QMul(QMin(Q(n, 50), Q(1, 1)), Q(5, 10)),
                metrics |-> [tx_count_90d |-> n, avg_tx_value |-> 0,
                             activity_consistency |-> 0]]

\* The scorer that measures the gaps in fractions of a day.
ProfitabilityScoreFractionalGaps(txs, now) ==
    LET recent_tx == RecentTx(txs, now, 90)
        n == Len(recent_tx)
        timestamps == Sorted([i \in 1..n |-> recent_tx[i].ts])
        span == timestamps[n] - timestamps[1]
        consistency ==
            IF n >= 2
              THEN QMin(Q(1, 1), Q(7 * TicksPerDay * (n - 1), span + TicksPerDay * (n - 1)))
              ELSE Q(3, 10)
    IN  IF txs = <<>> \/ recent_tx = <<>>
          THEN [score |-> Q(5, 10), metrics |-> [net_flow |-> 0, avg_value |-> 0]]
          ELSE [score |-> Clamp01(QAdd(QMul(QMin(Q(n, 50), Q(1, 1)), Q(5, 10)),
                                       QMul(consistency, Q(5, 10)))),
                metrics |-> [tx_count_90d |-> n, avg_tx_value |-> 0,
                             activity_consistency |-> Round3(consistency)]]

\* calculate_profitability_score(transactions, now)
ProfitabilityScore(txs, now) ==
    LET recent_tx == RecentTx(txs, now, 90)
        n == Len(recent_tx)
        received == [i \in 1..n |->
                        IF recent_tx[i].category \in {"external", "internal"}
                          THEN ParseValue(recent_tx[i].value) ELSE 0]
        total_volume == SumSeq(received)
        avg_value == Q(total_volume, n)
        activity_level == QMin(Q(n, 50), Q(1, 1))
        timestamps == Sorted([i \in 1..n |-> recent_tx[i].ts])
        gaps == [i \in 1..(n - 1) |-> WholeDays(timestamps[i + 1] - timestamps[i])]
        \* 7.0 / (avg_gap + 1), with avg_gap = sum(gaps) / len(gaps)
        consistency ==
            IF n >= 2
              THEN QMin(Q(1, 1), Q(7 * Len(gaps), SumSeq(gaps) + Len(gaps)))
              ELSE Q(3, 10)
    IN  IF txs = <<>> \/ recent_tx = <<>>
          THEN [score |-> Q(5, 10), metrics |-> [net_flow |-> 0, avg_value |-> 0]]
          ELSE [score |-> Clamp01(QAdd(QMul(activity_level, Q(5, 10)),
                                       QMul(consistency, Q(5, 10)))),
                metrics |-> [tx_count_90d |-> n,
                             avg_tx_value |-> Round4(avg_value),
                             activity_consistency |-> Round3(consistency)]]

\* The weighted sum of the stability factors returned without the clamp.
StabilityScoreUnclamped(txs, held, now) ==
    LET active == ActivePositions(held)
        stablecoin_count ==
            Len(SelectSeq(active, LAMBDA p : Lower(p.contractAddress) \in STABLECOINS))
        stablecoin_ratio ==
            IF active # <<>> THEN Q(stablecoin_count, Len(active)) ELSE Q(0, 1)
        wallet_age_days ==
            IF txs # <<>> THEN WholeDays(now - txs[Len(txs)].ts) ELSE 0
        recent_tx == RecentTx(txs, now, 30)
        sell_count ==
            Len(SelectSeq(recent_tx, LAMBDA tx :
                tx.category \in {"erc20", "external"} /\ ParseValue(tx.value) > 0))
        panic_indicator ==
            IF Len(recent_tx) > 0
              THEN QSub(Q(1, 1), QMin(Q(sell_count * 2, Len(recent_tx)), Q(1, 1)))
              ELSE Q(7, 10)
    IN  [score |-> QAdd(QAdd(QMul(stablecoin_ratio, Q(3, 10)),
                             QMul(QMin(Q(wallet_age_days, 730), Q(1, 1)), Q(4, 10))),
                        QMul(panic_indicator, Q(3, 10))),
         metrics |-> [stablecoin_ratio |-> Round3(stablecoin_ratio),
                      wallet_age_days |-> wallet_age_days,
                      recent_sell_count |-> sell_count]]

\* calculate_stability_score(transactions, positions, now)
StabilityScore(txs, held, now) ==
    LET active == ActivePositions(held)
        stablecoin_count ==
            Len(SelectSeq(active, LAMBDA p : Lower(p.contractAddress) \in STABLECOINS))
        stablecoin_ratio ==
            IF active # <<>> THEN Q(stablecoin_count, Len(active)) ELSE Q(0, 1)
        \* the wallet's age is taken from the last element of the list
        wallet_age_days ==
            IF txs # <<>> THEN WholeDays(now - txs[Len(txs)].ts) ELSE 0
        age_score == QMin(Q(wallet_age_days, 730), Q(1, 1))
        recent_tx == RecentTx(txs, now, 30)
        sell_count ==
            Len(SelectSeq(recent_tx, LAMBDA tx :
                tx.category \in {"erc20", "external"} /\ ParseValue(tx.value) > 0))
        panic_indicator ==
            IF Len(recent_tx) > 0
              THEN QSub(Q(1, 1), QMin(Q(sell_count * 2, Len(recent_tx)), Q(1, 1)))
              ELSE Q(7, 10)
    IN  [score |-> Clamp01(QAdd(QAdd(QMul(stablecoin_ratio, Q(3, 10)),
                                     QMul(age_score, Q(4, 10))),
                                QMul(panic_indicator, Q(3, 10)))),
         metrics |-> [stablecoin_ratio |-> Round3(stablecoin_ratio),
                      wallet_age_days |-> wallet_age_days,
                      recent_sell_count |-> sell_count]]

\* {**a, **b}: the keys of both, b's value where both have the key.
Merge(a, b) ==
    [k \in DOMAIN a \cup DOMAIN b |-> IF k \in DOMAIN b THEN b[k] ELSE a[k]]

\* calculate_scores(address, transactions=, positions=) at the instant `now`
\* that it reads from the clock.
CalculateScores(txs, held, now) ==
    LET act == ActivityScore(txs, now)
        div == DiversificationScore(held)
        risk == RiskScore(txs, held, now)
        prof == ProfitabilityScore(txs, now)
        stab == StabilityScore(txs, held, now)
        scores == [activity_score |-> Round4(act.score),
                   diversification_score |-> Round4(div.score),
                   risk_score |-> Round4(risk.score),
                   profitability_score |-> Round4(prof.score),
                   stability_score |-> Round4(stab.score)]
        \* sum(scores[k] * 0.2), in units of 0.0001, before round(total, 4)
        total_score ==
            Q(scores.activity_score + scores.diversification_score + scores.risk_score
                + scores.profitability_score + scores.stability_score, 5)
        metrics ==
            Merge(Merge(Merge(Merge(Merge(
                [transactions_count |-> Len(txs),
                 positions_count |-> div.metrics.unique_tokens],
                act.metrics), div.metrics), risk.metrics), prof.metrics), stab.metrics)
    IN  Merge(scores, [total_score |-> RoundScaled(total_score, 1), metrics |-> metrics])

(***************************************************************************)
(* The pipeline orchestrator: run_wallet_pipeline (daily_job.py)           *)
(***************************************************************************)

MaxTicks == 2

MaxCalls == 2

MaxBatchLen == 2

\* USDT's contract, as the allow-list writes it and with capital hex digits.
Usdt == CHOOSE c \in STABLECOINS : SubSeq(c, 3, 6) = <<"d", "a", "c", "1">>

UsdtUpper == [i \in 1..Len(Usdt) |-> IF Usdt[i] = "d" THEN "D" ELSE Usdt[i]]

\* A transfer a few ticks inside the 30-day window at Clock0, and an old one.
TxRecent ==
    [hash |-> "0xh1", blockNum |-> JStr(<<"0", "x", "1", "f">>),
     ts |-> Clock0 - Days(30) + 1, value |-> JNum(5), category |-> "external",
     contract |-> Some(UsdtUpper)]

TxOld ==
    [hash |-> "0xh2", blockNum |-> JNull, ts |-> Clock0 - Days(100), value |-> JNull,
     category |-> "erc20", contract |-> None]

PosUsdt == [contractAddress |-> UsdtUpper, tokenBalance |-> JStr(<<"0", "x", "1", "0">>)]

PosEmpty == [contractAddress |-> TokenA, tokenBalance |-> JStr(<<"0", "x", "0">>)]

\* A balance written without the 0x prefix, and one sent as a JSON number.
PosBare == [contractAddress |-> TokenB, tokenBalance |-> JStr(<<"f", "f">>)]

PosNumber == [contractAddress |-> TokenB, tokenBalance |-> JNum(7)]

\* Alchemy lists transfers oldest first unless asked otherwise.
Feeds ==
    [transfers : {<<>>, <<TxOld, TxRecent>>},
     balances : {<<>>, <<PosUsdt, PosEmpty>>, <<PosBare>>, <<PosNumber>>}]

\* What Alchemy answers for a wallet: AddrA has the history `upstream`,
\* every other wallet has none.
Upstream(wallet) == IF wallet = AddrA THEN upstream ELSE NoFeed

PipelineAddresses == {AddrA, AddrAUpper, AddrB}

AddressLists == UNION {[1..n -> PipelineAddresses] : n \in 1..MaxBatchLen}

\* Python truthiness of a JSON value.
Truthy(val) ==
    CASE val.t = "null" -> FALSE
      [] val.t = "str" -> val.s # <<>>
      [] val.t = "num" -> val.n # 0

\* int(val, 16): a TypeError for anything but a string.
IntBase16(val) == IF val.t = "str" THEN ParseInt(val.s, 16) ELSE Err("TypeError")

\* put_object: the object stored under the key is replaced.
PutJson(bucket, key, body) ==
    {o \in bucket : o.key # key} \cup {[key |-> key, body |-> body]}

\* The row handed to upsert_wallets.
WalletRow(address, txs, now) ==
    [address |-> address, chain |-> "eth_mainnet",
     first_seen |-> Some(IF txs # <<>> THEN txs[Len(txs)].ts ELSE now),
     last_seen |-> Some(IF txs # <<>> THEN txs[1].ts ELSE now),
     tags |-> <<>>]

\* The transfers that get a row: those with a hash (and a timestamp).
WithHash(txs) == SelectSeq(txs, LAMBDA tx : tx.hash # "")

\* The transaction row of one transfer; block_number is NULL when blockNum is falsy.
TxRow(address, tx) ==
    [hash |-> tx.hash, address |-> address,
     block_number |-> IF Truthy(tx.blockNum) THEN Some(IntBase16(tx.blockNum).v) ELSE None,
     timestamp |-> tx.ts, gas_spent_usd |-> None, tx_type |-> tx.category,
     contracts_involved |-> <<tx.contract>>, raw_payload |-> Some(tx)]

TxRows(address, txs) ==
    [k \in 1..Len(WithHash(txs)) |-> TxRow(address, WithHash(txs)[k])]

\* The balances that get a row: those with a contractAddress.
WithToken(held) == SelectSeq(held, LAMBDA pos : pos.contractAddress # <<>>)

\* The position row of one balance; the balance is read as hexadecimal.
PositionRow(address, pos, now) ==
    [address |-> address, token |-> pos.contractAddress, protocol |-> None,
     balance |-> IF Truthy(pos.tokenBalance) THEN IntBase16(pos.tokenBalance).v ELSE 0,
     usd_value |-> None, last_updated |-> now, raw_payload |-> Some(pos)]

PositionRowsOf(address, held, now) ==
    [k \in 1..Len(WithToken(held)) |-> PositionRow(address, WithToken(held)[k], now)]

\* Building position_rows raises when a tokenBalance is no hexadecimal string.
PositionRowsError(held) ==
    LET bad == {k \in 1..Len(WithToken(held)) :
                  /\ Truthy(WithToken(held)[k].tokenBalance)
                  /\ ~IntBase16(WithToken(held)[k].tokenBalance).ok}
    IN  IF bad = {} THEN None
        ELSE Some(IntBase16(WithToken(held)[CHOOSE k \in bad : \A m \in bad : k <= m].tokenBalance).exc)

\* The row handed to upsert_features_daily.
FeatureRow(address, now, scores) ==
    [address |-> address, date |-> WholeDays(now),
     activity_score |-> scores.activity_score,
     diversification_score |-> scores.diversification_score,
     risk_score |-> scores.risk_score,
     profitability_score |-> scores.profitability_score,
     stability_score |-> scores.stability_score,
     total_score |-> scores.total_score,
     metrics |-> scores.metrics]

\* INSERT INTO features_daily ... ON CONFLICT (address, date) DO UPDATE SET the
\* six scores and the metrics; for one row.
UpsertFeatureRow(table, row) ==
    {f \in table : ~(f.address = row.address /\ f.date = row.date)} \cup {row}

RECURSIVE UpsertFeaturesDaily(_, _)
\* upsert_features_daily(rows)
UpsertFeaturesDaily(table, rows) ==
    IF rows = <<>> THEN table
    ELSE UpsertFeaturesDaily(UpsertFeatureRow(table, Head(rows)), Tail(rows))

\* ---- the steps ----

\* The address of the current iteration of the loop.
Address == run.addrs[run.i]

\* The exception leaves run_wallet_pipeline: nothing in the loop catches it.
Raise(type) == run' = [run EXCEPT !.pc = "raised", !.exc = Some(type)]

\* run_wallet_pipeline(addresses): the clients are built, the bucket is ensured,
\* and the loop is entered.
PipeStart(addrs) ==
    /\ run.pc \in {"idle", "returned", "raised"}
    /\ run.calls < MaxCalls
    /\ run' = [IdleRun EXCEPT !.pc = "fetch_transactions", !.addrs = addrs, !.i = 1,
                              !.calls = run.calls + 1]
    /\ UNCHANGED <<jobVars, storeVars, logVars, clock, upstream, raw, features, callVars>>

\* transactions = alchemy.fetch_transactions(address)
PipeFetchTransactions ==
    /\ run.pc = "fetch_transactions"
    /\ \/ run' = [run EXCEPT !.pc = "fetch_token_balances",
                             !.transactions = Upstream(Lower(Address)).transfers]
       \/ Raise("RuntimeError")
    /\ UNCHANGED <<jobVars, storeVars, logVars, clock, upstream, raw, features, callVars>>

\* The transfers are archived before the balances are fetched.
PipeFetchTokenBalancesAfterArchive ==
    /\ run.pc = "fetch_token_balances"
    /\ raw' = PutJson(raw, <<WholeDays(clock), "transactions", Address>>, run.transactions)
    /\ \/ run' = [run EXCEPT !.pc = "put_transactions",
                             !.positions = Upstream(Lower(Address)).balances]
       \/ Raise("RuntimeError")
    /\ UNCHANGED <<jobVars, storeVars, logVars, clock, upstream, features, callVars>>

\* positions = alchemy.fetch_token_balances(address)
PipeFetchTokenBalances ==
    /\ run.pc = "fetch_token_balances"
    /\ \/ run' = [run EXCEPT !.pc = "put_transactions",
                             !.positions = Upstream(Lower(Address)).balances]
       \/ Raise("RuntimeError")
    /\ UNCHANGED <<jobVars, storeVars, logVars, clock, upstream, raw, features, callVars>>

\* raw_key_prefix = now().strftime("%Y%m%d"); put_json(".../transactions/...")
PipePutTransactions ==
    /\ run.pc = "put_transactions"
    /\ \/ /\ raw' = PutJson(raw, <<WholeDays(clock), "transactions", Address>>,
                            run.transactions)
          /\ run' = [run EXCEPT !.pc = "put_positions",
                                !.raw_key_prefix = WholeDays(clock)]
       \/ Raise("ClientError") /\ UNCHANGED raw
    /\ UNCHANGED <<jobVars, storeVars, logVars, clock, upstream, features, callVars>>

\* The positions payload is archived and the wallet watermark is skipped.
PipePutPositionsSkipWallets ==
    /\ run.pc = "put_positions"
    /\ raw' = PutJson(raw, <<run.raw_key_prefix, "positions", Address>>, run.positions)
    /\ run' = [run EXCEPT !.pc = "insert_transactions"]
    /\ UNCHANGED <<jobVars, storeVars, logVars, clock, upstream, features, callVars>>

\* put_json(".../positions/...")
PipePutPositions ==
    /\ run.pc = "put_positions"
    /\ \/ /\ raw' = PutJson(raw, <<run.raw_key_prefix, "positions", Address>>,
                            run.positions)
          /\ run' = [run EXCEPT !.pc = "upsert_wallets"]
       \/ Raise("ClientError") /\ UNCHANGED raw
    /\ UNCHANGED <<jobVars, storeVars, logVars, clock, upstream, features, callVars>>

\* now = datetime.now(timezone.utc); the watermark; pg_store.upsert_wallets([...])
PipeUpsertWallets ==
    /\ run.pc = "upsert_wallets"
    /\ \/ /\ wallets' = UpsertWallets(wallets,
                                      <<WalletRow(Address, run.transactions, clock)>>)
          /\ run' = [run EXCEPT !.pc = "insert_transactions", !.now = clock]
       \/ Raise("OperationalError") /\ UNCHANGED wallets
    /\ UNCHANGED <<jobVars, transactions, positions, logVars, clock, upstream, raw,
                   features, callVars>>

\* tx_rows; pg_store.insert_transactions(tx_rows), which does nothing for no rows
PipeInsertTransactions ==
    /\ run.pc = "insert_transactions"
    /\ \/ /\ transactions' = InsertTransactions(transactions,
                                                TxRows(Address, run.transactions))
          /\ run' = [run EXCEPT !.pc = "upsert_positions"]
       \/ /\ TxRows(Address, run.transactions) # <<>>
          /\ Raise("OperationalError")
          /\ UNCHANGED transactions
    /\ UNCHANGED <<jobVars, wallets, positions, logVars, clock, upstream, raw, features, callVars>>

\* position_rows; pg_store.upsert_positions(position_rows)
PipeUpsertPositions ==
    /\ run.pc = "upsert_positions"
    /\ \/ /\ PositionRowsError(run.positions) = None
          /\ positions' = UpsertPositions(positions,
                              PositionRowsOf(Address, run.positions, run.now))
          /\ run' = [run EXCEPT !.pc = "calculate_scores"]
       \/ /\ PositionRowsError(run.positions) # None
          /\ Raise(PositionRowsError(run.positions)[1])
          /\ UNCHANGED positions
       \/ /\ PositionRowsError(run.positions) = None
          /\ PositionRowsOf(Address, run.positions, run.now) # <<>>
          /\ Raise("OperationalError")
          /\ UNCHANGED positions
    /\ UNCHANGED <<jobVars, wallets, transactions, logVars, clock, upstream, raw,
                   features, callVars>>

\* scores = calculate_scores(address, transactions=, positions=), which reads
\* the clock once more.
PipeCalculateScores ==
    /\ run.pc = "calculate_scores"
    /\ IF BalancesParse(run.positions)
         THEN run' = [run EXCEPT
                        !.pc = "upsert_features_daily",
                        !.scores = Some(CalculateScores(run.transactions, run.positions,
                                                        clock))]
         ELSE Raise("ValueError")
    /\ UNCHANGED <<jobVars, storeVars, logVars, clock, upstream, raw, features, callVars>>

\* A failed write of the features row is passed over and the loop goes on.
PipeUpsertFeaturesBestEffort ==
    /\ run.pc = "upsert_features_daily"
    /\ \/ features' = UpsertFeaturesDaily(features,
                          <<FeatureRow(Address, run.now, run.scores[1])>>)
       \/ UNCHANGED features
    /\ run' = [run EXCEPT
                 !.done = run.done \cup {run.i},
                 !.pc = IF run.i < Len(run.addrs) THEN "fetch_transactions" ELSE "returned",
                 !.i = IF run.i < Len(run.addrs) THEN run.i + 1 ELSE run.i]
    /\ UNCHANGED <<jobVars, storeVars, logVars, clock, upstream, raw, callVars>>

\* pg_store.upsert_features_daily([...]), then the next address or the return.
PipeUpsertFeatures ==
    /\ run.pc = "upsert_features_daily"
    /\ \/ /\ features' = UpsertFeaturesDaily(features,
                             <<FeatureRow(Address, run.now, run.scores[1])>>)
          /\ run' = [run EXCEPT
                       !.done = run.done \cup {run.i},
                       !.pc = IF run.i < Len(run.addrs) THEN "fetch_transactions"
                              ELSE "returned",
                       !.i = IF run.i < Len(run.addrs) THEN run.i + 1 ELSE run.i]
       \/ Raise("OperationalError") /\ UNCHANGED features
    /\ UNCHANGED <<jobVars, storeVars, logVars, clock, upstream, raw, callVars>>

\* Time passes.
Tick ==
    /\ clock < Clock0 + MaxTicks
    /\ clock' = clock + 1
    /\ UNCHANGED <<jobVars, storeVars, logVars, upstream, raw, features, run, callVars>>

\* The wallet AddrA has some history upstream; it does not change.
InitPipe ==
    /\ InitJobs
    /\ InitStore
    /\ clock = Clock0
    /\ upstream \in Feeds
    /\ raw = {}
    /\ features = {}
    /\ run = IdleRun
    /\ InitCalls

NextPipe ==
    \/ \E addrs \in AddressLists : PipeStart(addrs)
    \/ PipeFetchTransactions
    \/ PipeFetchTokenBalances
    \/ PipePutTransactions
    \/ PipePutPositions
    \/ PipeUpsertWallets
    \/ PipeInsertTransactions
    \/ PipeUpsertPositions
    \/ PipeCalculateScores
    \/ PipeUpsertFeatures
    \/ Tick

SpecPipe == InitPipe /\ [][NextPipe]_vars

(***************************************************************************)
(* Properties of the pipeline                                              *)
(***************************************************************************)

\* C5: when a batch call has ended with an exception raised while address
\* number i was processed, every later address of the batch has had its
\* features row upserted by that call.
C5_BatchFailureIsolated ==
    run.pc = "raised" =>
        \A j \in (run.i + 1)..Len(run.addrs) : j \in run.done

\* The five component values of a features row.
Components(f) ==
    <<f.activity_score, f.diversification_score, f.risk_score, f.profitability_score,
      f.stability_score>>

\* C6: a run for an address that already has a row for the day (the upstream
\* data being the same throughout) leaves one row for that address and day,
\* with the five component values the earlier run stored.
C6_SameDayRerunIdempotent ==
    [][\A f \in features, g \in features' :
           (f.address = g.address /\ f.date = g.date) =>
               /\ Components(g) = Components(f)
               /\ \A h \in features' :
                      (h.address = g.address /\ h.date = g.date) => h = g]_vars

\* The steps of one iteration of the loop, in the order of the statements.
Steps ==
    <<"fetch_transactions", "fetch_token_balances", "put_transactions", "put_positions",
      "upsert_wallets", "insert_transactions", "upsert_positions", "calculate_scores",
      "upsert_features_daily">>

\* C11: for each address the steps run in the order fetch transfers, fetch
\* positions, archive both payloads, upsert the wallet, insert the transfer
\* rows, upsert the position rows, compute the scores, upsert the features
\* row, each store being written by its own step only; the first step of the
\* next address follows the last step of the address before it.
C11_StepsInOrder ==
    [][/\ run' # run =>
              \/ /\ run.pc \in {"idle", "returned", "raised"}
                 /\ run'.pc = Steps[1] /\ run'.i = 1
              \/ /\ \E k \in 1..Len(Steps) : run.pc = Steps[k]
                 /\ run'.pc = "raised" /\ run'.i = run.i
              \/ \E k \in 1..(Len(Steps) - 1) :
                     run.pc = Steps[k] /\ run'.pc = Steps[k + 1] /\ run'.i = run.i
              \/ /\ run.pc = Steps[Len(Steps)]
                 /\ \/ run'.pc = Steps[1] /\ run'.i = run.i + 1
                    \/ run'.pc = "returned" /\ run.i = Len(run.addrs)
       /\ raw' # raw => run.pc \in {"put_transactions", "put_positions"}
       /\ wallets' # wallets => run.pc = "upsert_wallets"
       /\ transactions' # transactions => run.pc = "insert_transactions"
       /\ positions' # positions => run.pc = "upsert_positions"
       /\ run'.scores # run.scores /\ run'.scores # None => run.pc = "calculate_scores"
       /\ features' # features => run.pc = "upsert_features_daily"]_vars

\* A batch of two addresses has returned after both got their features row,
\* the first one with transfers and positions stored.
C11_Witness ==
    /\ run.pc = "returned"
    /\ run.done = {1, 2}
    /\ \A j \in {1, 2} : \E f \in features : f.address = run.addrs[j]
    /\ transactions # {}
    /\ positions # {}

\* C7: the table holds at most one row per wallet and day, addresses that
\* differ only in letter case being the same wallet.
C7_OneRecordPerWalletPerDay ==
    \A f, g \in features :
        (SameWallet(f.address, g.address) /\ f.date = g.date) => f = g

(***************************************************************************)
(* The Alchemy client (clients/alchemy.py)                                 *)
(***************************************************************************)

MaxPages == 3

\* The "result" member of a response body: absent, null, or an object whose
\* members may be absent as well.
ResultAbsent == [t |-> "absent"]

ResultNull == [t |-> "null"]

TransfersResult(transfers, pageKey) ==
    [t |-> "object", transfers |-> transfers, pageKey |-> pageKey]

BalancesResult(tokenBalances) == [t |-> "object", tokenBalances |-> tokenBalances]

\* What session.post and raise_for_status make of one request: they raise, or
\* response.json() is a body with or without the members "error" and "result".
Raises == [raises |-> TRUE, error |-> None, result |-> ResultAbsent]

Body(error, result) == [raises |-> FALSE, error |-> error, result |-> result]

TransfersResponses ==
    {Raises, Body(Some("rate limited"), ResultAbsent), Body(None, ResultAbsent),
     Body(None, ResultNull)}
        \cup {Body(None, TransfersResult(transfers, pageKey)) :
                transfers \in {None, Some(<<>>), Some(<<TxOld>>), Some(<<TxRecent>>)},
                pageKey \in {None, Some(""), Some("next")}}

BalancesResponses ==
    {Raises, Body(Some("rate limited"), ResultAbsent), Body(None, ResultAbsent),
     Body(None, ResultNull)}
        \cup {Body(None, BalancesResult(tokenBalances)) :
                tokenBalances \in {None, Some(<<>>), Some(<<PosUsdt>>),
                                   Some(<<PosUsdt, PosEmpty>>)}}

\* dict.get(key, default) for a member that may be absent.
GetOr(member, default) == IF member = None THEN default ELSE member[1]

\* The exception leaves the fetch method.
FetchRaise(response, type) ==
    fetch' = [fetch EXCEPT !.pc = "raised", !.exc = Some(type),
                           !.seen = Append(fetch.seen, response)]

\* fetch_transactions(address) is called.
CallFetchTransactions ==
    /\ fetch.pc \in {"idle", "returned", "raised"}
    /\ fetch' = [IdleFetch EXCEPT !.pc = "request",
                                  !.method = "alchemy_getAssetTransfers"]
    /\ UNCHANGED <<jobVars, storeVars, logVars, pipeVars, calc>>

\* One turn of the while loop: the request with the page key, the checks of
\* the response, and the break when there is no further page key.
FetchTransactionsPage(response) ==
    /\ fetch.pc = "request"
    /\ fetch.method = "alchemy_getAssetTransfers"
    /\ Len(fetch.seen) < MaxPages
    /\ IF response.raises THEN FetchRaise(response, "RequestException")
       ELSE IF response.error # None THEN FetchRaise(response, "RuntimeError")
       ELSE IF response.result.t = "null" THEN FetchRaise(response, "AttributeError")
       ELSE LET transfers ==
                    IF response.result.t = "absent" THEN <<>>
                    ELSE GetOr(response.result.transfers, <<>>)
                page_key ==
                    IF response.result.t = "absent" THEN None
                    ELSE response.result.pageKey
                all_transactions == fetch.all_transactions \o transfers
            IN  IF page_key = None \/ page_key = Some("")
                  THEN fetch' = [fetch EXCEPT !.pc = "returned",
                                              !.all_transactions = all_transactions,
                                              !.page_key = page_key,
                                              !.seen = Append(fetch.seen, response),
                                              !.ret = Some(all_transactions)]
                  ELSE fetch' = [fetch EXCEPT !.all_transactions = all_transactions,
                                              !.page_key = page_key,
                                              !.seen = Append(fetch.seen, response)]
    /\ UNCHANGED <<jobVars, storeVars, logVars, pipeVars, calc>>

\* fetch_token_balances(address) is called.
CallFetchTokenBalances ==
    /\ fetch.pc \in {"idle", "returned", "raised"}
    /\ fetch' = [IdleFetch EXCEPT !.pc = "request",
                                  !.method = "alchemy_getTokenBalances"]
    /\ UNCHANGED <<jobVars, storeVars, logVars, pipeVars, calc>>

\* The one request of fetch_token_balances and the checks of its response.
FetchTokenBalancesResponse(response) ==
    /\ fetch.pc = "request"
    /\ fetch.method = "alchemy_getTokenBalances"
    /\ IF response.raises THEN FetchRaise(response, "RequestException")
       ELSE IF response.error # None THEN FetchRaise(response, "RuntimeError")
       ELSE IF response.result.t = "null" THEN FetchRaise(response, "AttributeError")
       ELSE fetch' = [fetch EXCEPT
                        !.pc = "returned",
                        !.seen = Append(fetch.seen, response),
                        !.ret = Some(IF response.result.t = "absent" THEN <<>>
                                     ELSE GetOr(response.result.tokenBalances, <<>>))]
    /\ UNCHANGED <<jobVars, storeVars, logVars, pipeVars, calc>>

NextFetch ==
    \/ CallFetchTransactions
    \/ \E response \in TransfersResponses : FetchTransactionsPage(response)
    \/ CallFetchTokenBalances
    \/ \E response \in BalancesResponses : FetchTokenBalancesResponse(response)

SpecFetch == Init /\ [][NextFetch]_vars

\* C12: a fetch method returns a list only if every request of the call was
\* answered, without an error member and with a result object.
C12_FetchNeverPartial ==
    fetch.pc = "returned" =>
        \A k \in 1..Len(fetch.seen) :
            /\ ~fetch.seen[k].raises
            /\ fetch.seen[k].error = None
            /\ fetch.seen[k].result.t = "object"

(***************************************************************************)
(* calculate_scores, called on its own (daily_job.py)                      *)
(***************************************************************************)

MaxTransfers == 2

MaxPositions == 2

\* A transfer dated after now, one exactly 30 days old, one a good week old
\* whose value is a string and whose contract is empty, and one 60 days old.
TxFuture ==
    [hash |-> "0xh3", blockNum |-> JNull, ts |-> Clock0 + Days(3), value |-> JNum(2),
     category |-> "erc20", contract |-> Some(Usdt)]

TxBoundary ==
    [hash |-> "0xh4", blockNum |-> JNull, ts |-> Clock0 - Days(30), value |-> JNum(7),
     category |-> "internal", contract |-> Some(TokenA)]

TxWeek ==
    [hash |-> "0xh5", blockNum |-> JNull, ts |-> Clock0 - Days(8) - 1,
     value |-> JStr(<<"0", "x", "5">>), category |-> "erc20", contract |-> Some(<<>>)]

TxTwoMonths ==
    [hash |-> "0xh6", blockNum |-> JNull, ts |-> Clock0 - Days(60), value |-> JNum(1),
     category |-> "external", contract |-> Some(TokenA)]

TransferPool == {TxRecent, TxOld, TxFuture, TxBoundary, TxWeek, TxTwoMonths}

\* A balance of a token whose address holds a high-risk indicator, and a null one.
PosDoge ==
    [contractAddress |-> <<"0", "x", "D", "o", "G", "E">>, tokenBalance |-> JNum(3)]

PosNull == [contractAddress |-> TokenB, tokenBalance |-> JNull]

PositionPool == {PosUsdt, PosEmpty, PosDoge, PosNull, PosBare}

\* Six contracts, 0xc1 .. 0xc6.
Contract(k) == <<"0", "x", "c", HexDigits[k + 1]>>

\* 15 transfers of yesterday over six contracts.
Transfers15 ==
    [k \in 1..15 |->
        [hash |-> "0xh", blockNum |-> JNull, ts |-> Clock0 - Days(1), value |-> JNum(1),
         category |-> "erc721", contract |-> Some(Contract((k % 6) + 1))]]

\* 11 transfers of yesterday, one of them worth 1000 and the others nothing.
Transfers11 ==
    [k \in 1..11 |->
        [hash |-> "0xh", blockNum |-> JNull, ts |-> Clock0 - Days(1),
         value |-> JNum(IF k = 4 THEN 1000 ELSE 0), category |-> "internal",
         contract |-> None]]

\* 10 active positions, neither stablecoins nor high-risk tokens.
Positions10 ==
    [k \in 1..10 |-> [contractAddress |-> Contract(k), tokenBalance |-> JNum(k)]]

TransferLists ==
    UNION {[1..n -> TransferPool] : n \in 0..MaxTransfers} \cup {Transfers15, Transfers11}

PositionLists ==
    UNION {[1..n -> PositionPool] : n \in 0..MaxPositions} \cup {Positions10}

\* calculate_scores(address, transactions=, positions=) has been called, at
\* one of two instants of a day.
InitScores ==
    /\ InitJobs
    /\ InitStore
    /\ upstream = NoFeed
    /\ raw = {}
    /\ features = {}
    /\ run = IdleRun
    /\ fetch = IdleFetch
    /\ clock \in {Clock0, Clock0 + 1}
    /\ \E txs \in TransferLists, held \in PositionLists :
           calc = [IdleCalc EXCEPT !.pc = "called", !.transactions = txs,
                                   !.positions = held]

\* The body of calculate_scores: the clock is read, the five scorers are
\* called, their values are rounded and combined; a balance that does not
\* parse raises in the first scorer that reads it.
CalcScores ==
    /\ calc.pc = "called"
    /\ IF BalancesParse(calc.positions)
         THEN calc' =
                [calc EXCEPT
                   !.pc = "returned",
                   !.now = clock,
                   !.locals =
                       Some([activity |-> ActivityScore(calc.transactions, clock),
                             diversification |-> DiversificationScore(calc.positions),
                             risk |-> RiskScore(calc.transactions, calc.positions, clock),
                             profitability |-> ProfitabilityScore(calc.transactions, clock),
                             stability |-> StabilityScore(calc.transactions,
                                                          calc.positions, clock)]),
                   !.result = Some(CalculateScores(calc.transactions, calc.positions,
                                                   clock))]
         ELSE calc' = [calc EXCEPT !.pc = "raised", !.now = clock,
                                   !.exc = Some("ValueError")]
    /\ UNCHANGED <<jobVars, storeVars, logVars, pipeVars, fetch>>

NextScores == CalcScores

SpecScores == InitScores /\ [][NextScores]_vars

(***************************************************************************)
(* Properties of the scores. A stored score is a whole number of 0.0001.   *)
(***************************************************************************)

\* What calculate_scores returned.
Returned == calc.result[1]

\* C13: each of the five component scores and the total score that
\* calculate_scores returns lies in [0.0, 1.0], transfers dated after now
\* included.
C13_ScoresInUnitInterval ==
    calc.pc = "returned" =>
        \A x \in {Returned.activity_score, Returned.diversification_score,
                  Returned.risk_score, Returned.profitability_score,
                  Returned.stability_score, Returned.total_score} :
            0 <= x /\ x <= 10000

\* Scores were returned for a wallet whose last listed transfer is dated
\* after now: its age is negative and the stability score is 0.
C13_Witness ==
    /\ calc.pc = "returned"
    /\ calc.transactions = <<TxFuture>>
    /\ calc.locals[1].stability.metrics.wallet_age_days < 0
    /\ Returned.stability_score = 0

\* |x|
Abs(x) == IF x < 0 THEN -x ELSE x

\* The integer c is the fraction q times 10000, rounded to a nearest integer.
IsRounded4(c, q) == 2 * Abs(q[1] * 10000 - c * q[2]) <= q[2]

\* C14: the returned total is the sum of the five returned components times
\* 0.2, rounded to four decimal places (a sum of multiples of 0.0001 times
\* 0.2 is never half-way between two multiples of 0.0001), and each returned
\* component is its scorer's value rounded to four decimal places.
C14_TotalIsRoundedWeightedSum ==
    calc.pc = "returned" =>
        /\ Abs(5 * Returned.total_score
                 - (Returned.activity_score + Returned.diversification_score
                      + Returned.risk_score + Returned.profitability_score
                      + Returned.stability_score)) <= 2
        /\ IsRounded4(Returned.activity_score, calc.locals[1].activity.score)
        /\ IsRounded4(Returned.diversification_score,
                      calc.locals[1].diversification.score)
        /\ IsRounded4(Returned.risk_score, calc.locals[1].risk.score)
        /\ IsRounded4(Returned.profitability_score, calc.locals[1].profitability.score)
        /\ IsRounded4(Returned.stability_score, calc.locals[1].stability.score)

\* Scores were returned for a wallet with two transfers and a stablecoin: the
\* components 0.14, 0.07, 0.9, 0.16 and 0.3159 (from 0.31589...) and the
\* total 0.3172 (from 0.31718).
C14_Witness ==
    /\ calc.pc = "returned"
    /\ calc.transactions = <<TxOld, TxRecent>>
    /\ calc.positions = <<PosUsdt, PosEmpty>>
    /\ calc.now = Clock0
    /\ Returned.stability_score = 3159
    /\ Returned.total_score = 3172

\* C15: for a wallet with no transfers and no positions calculate_scores
\* returns, without raising, activity 0.0, diversification 0.0, risk 0.5,
\* profitability 0.5 and stability 0.21, the latter from wallet_age_days 0,
\* stablecoin_ratio 0 and the neutral panic indicator 0.7 (0.3 * 0.7).
C15_EmptyWalletScores ==
    (calc.pc # "called" /\ calc.transactions = <<>> /\ calc.positions = <<>>) =>
        /\ calc.pc = "returned"
        /\ Returned.activity_score = 0
        /\ Returned.diversification_score = 0
        /\ Returned.risk_score = 5000
        /\ Returned.profitability_score = 5000
        /\ Returned.stability_score = 2100
        /\ Returned.metrics.wallet_age_days = 0
        /\ Returned.metrics.stablecoin_ratio = 0
        /\ Returned.metrics.recent_sell_count = 0

\* calculate_scores has returned for the wallet without history.
C15_Witness ==
    /\ calc.pc = "returned"
    /\ calc.transactions = <<>>
    /\ calc.positions = <<>>
    /\ Returned.total_score = 2420

\* The places of the list whose transfer is dated later than `days` days
\* before now.
InWindow(txs, now, days) == {i \in 1..Len(txs) : txs[i].ts > now - Days(days)}

\* The number of distinct non-empty contract addresses at the places `at`,
\* two spellings that differ in letter case only being one address.
DistinctContracts(txs, at) ==
    LET named == {i \in at : txs[i].contract # None /\ txs[i].contract[1] # <<>>}
    IN  Cardinality({{j \in named : SameWallet(txs[j].contract[1], txs[i].contract[1])} :
                        i \in named})

\* The transfers of the list that are in the window, in their order.
OnlyInWindow(txs, now, days) == SelectSeq(txs, LAMBDA tx : tx.ts > now - Days(days))

\* C16: the activity score is 0.6 * min(c/10, 1) + 0.4 * min(d/5, 1), c being
\* the number of transfers dated later than 30 days before now and d the
\* number of distinct non-empty contract addresses among them, letter case
\* ignored; without such transfers it is 0.0, and the transfers outside the
\* window do not change it.
C16_ActivityFormula ==
    calc.pc = "returned" =>
        LET txs == calc.transactions
            c == Cardinality(InWindow(txs, calc.now, 30))
            d == DistinctContracts(txs, InWindow(txs, calc.now, 30))
            score == calc.locals[1].activity.score
        IN  /\ score[1] * 50 = (3 * Min(c, 10) + 4 * Min(d, 5)) * score[2]
            /\ c = 0 => Returned.activity_score = 0
            /\ score = ActivityScore(OnlyInWindow(txs, calc.now, 30), calc.now).score

\* 15 transfers of yesterday over six contracts score 1.0.
C16_Witness ==
    /\ calc.pc = "returned"
    /\ calc.transactions = Transfers15
    /\ Returned.activity_score = 10000
    /\ Returned.metrics.unique_contracts_30d = 6

\* The places of the list whose position has a balance above zero.
Holding(held) == {i \in 1..Len(held) : ParseBalance(held[i].tokenBalance).v > 0}

\* The positions of the list whose balance is not zero, in their order.
WithoutZeroBalances(held) ==
    SelectSeq(held, LAMBDA p : ParseBalance(p.tokenBalance).v # 0)

\* C17: the diversification score is 0.7 * min(n/10, 1) plus, when n > 1,
\* 0.3 * min(n/20, 1), n being the number of positions whose parsed balance
\* is above zero; without such positions it is 0.0, and positions of balance
\* zero do not change it.
C17_DiversificationFormula ==
    calc.pc = "returned" =>
        LET n == Cardinality(Holding(calc.positions))
            score == calc.locals[1].diversification.score
        IN  /\ score[1] * 200 =
                   (14 * Min(n, 10) + (IF n > 1 THEN 3 * Min(n, 20) ELSE 0)) * score[2]
            /\ n = 0 => Returned.diversification_score = 0
            /\ score = DiversificationScore(WithoutZeroBalances(calc.positions)).score
            /\ Returned.metrics.unique_tokens = n

\* Ten positions with a balance score 0.85.
C17_Witness ==
    /\ calc.pc = "returned"
    /\ calc.positions = Positions10
    /\ Returned.diversification_score = 8500

\* The number of transfers at the places `at` whose value is above ten times
\* the mean value of those places, 0 when that mean is not above 0.
LargeTransfers(txs, at) ==
    LET Value(i) == ParseValue(txs[i].value)
        Sum[S \in SUBSET at] ==
            IF S = {} THEN 0
            ELSE LET i == CHOOSE j \in S : TRUE IN Value(i) + Sum[S \ {i}]
    IN  IF Sum[at] > 0
          THEN Cardinality({i \in at : Value(i) * Cardinality(at) > 10 * Sum[at]})
          ELSE 0

KthTimestamp(txs, at, k) ==
    LET AtMost(t) == Cardinality({i \in at : txs[i].ts <= t})
        enough == {txs[i].ts : i \in {j \in at : AtMost(txs[j].ts) >= k}}
    IN  CHOOSE t \in enough : \A u \in enough : t <= u

\* The sum of the gaps, each in whole days, between the consecutive
\* timestamps of the places `at` in ascending order.
GapDays(txs, at) ==
    LET Upto[k \in 0..(Cardinality(at) - 1)] ==
            IF k = 0 THEN 0
            ELSE Upto[k - 1]
                 + (KthTimestamp(txs, at, k + 1) - KthTimestamp(txs, at, k)) \div TicksPerDay
    IN  Upto[Cardinality(at) - 1]

\* The list in the opposite order.
Reverse(seq) == [i \in 1..Len(seq) |-> seq[Len(seq) + 1 - i]]

\* C19: the profitability score is 0.5 when no transfer is dated later than
\* 90 days before now; otherwise it is 0.5 * min(n/50, 1) + 0.5 * consistency
\* within [0, 1], n being the number of such transfers and consistency 0.3 for
\* one transfer and min(1, 7 / (avg_gap_days + 1)) for two or more, the gaps
\* being those between their consecutive timestamps in ascending order; the
\* order of the list does not change it.
C19_ProfitabilityFormula ==
    calc.pc = "returned" =>
        LET txs == calc.transactions
            window == InWindow(txs, calc.now, 90)
            n == Cardinality(window)
            \* avg_gap_days + 1 is g / (n - 1)
            g == GapDays(txs, window) + n - 1
            score == calc.locals[1].profitability.score
        IN  /\ n = 0 => score[1] * 2 = score[2] /\ Returned.profitability_score = 5000
            /\ n = 1 => score[1] * 100 = (1 + 15) * score[2]
            /\ n >= 2 =>
                   score[1] * 100 * g = (Min(n, 50) * g + 50 * Min(g, 7 * (n - 1))) * score[2]
            /\ score = ProfitabilityScore(Reverse(txs), calc.now).score

\* Two transfers 30 days apart, the later one first in the list:
\* 0.5 * 2/50 + 0.5 * 7/31 = 0.1329.
C19_Witness ==
    /\ calc.pc = "returned"
    /\ calc.transactions = <<TxRecent, TxTwoMonths>>
    /\ calc.now = Clock0
    /\ Returned.profitability_score = 1329
    /\ Returned.metrics.tx_count_90d = 2

\* The earliest timestamp of a non-empty list of transfers.
Earliest(txs) ==
    CHOOSE t \in {txs[i].ts : i \in 1..Len(txs)} : \A i \in 1..Len(txs) : t <= txs[i].ts

\* C20: wallet_age_days is the whole days between the earliest transfer
\* timestamp of the list and now, whatever the order of the list, and 0 for
\* an empty list.
C20_WalletAgeFromEarliest ==
    calc.pc = "returned" =>
        Returned.metrics.wallet_age_days =
            IF calc.transactions = <<>> THEN 0
            ELSE WholeDays(calc.now - Earliest(calc.transactions))

\* The metric key sets of one call: the five scorers' and the two counts that
\* calculate_scores adds itself.
MetricKeySets ==
    <<{"transactions_count", "positions_count"},
      DOMAIN calc.locals[1].activity.metrics,
      DOMAIN calc.locals[1].diversification.metrics,
      DOMAIN calc.locals[1].risk.metrics,
      DOMAIN calc.locals[1].profitability.metrics,
      DOMAIN calc.locals[1].stability.metrics>>

\* C21: the metric key sets of the five scorers are pairwise disjoint, and
\* disjoint from {transactions_count, positions_count}, on every branch of
\* every scorer.
C21_MetricKeysDisjoint ==
    calc.pc = "returned" =>
        \A i, j \in 1..Len(MetricKeySets) :
            i # j => MetricKeySets[i] \cap MetricKeySets[j] = {}

\* C22: the balance of every stored position row is what _parse_balance
\* returns for the tokenBalance the row was built from: that balance parses,
\* to an integer >= 0, and the row holds the parsed value.
C22_StoredBalanceIsParsedBalance ==
    \A r \in positions :
        r.raw_payload # None =>
            LET parsed == ParseBalance(r.raw_payload[1].tokenBalance)
            IN  /\ parsed.ok
                /\ parsed.v >= 0
                /\ r.balance = parsed.v

(***************************************************************************)
(* The job tracker with its worker threads scheduled                       *)
(***************************************************************************)

\* One step of the thread of job j.
WorkerStep(j) ==
    /\ j \in DOMAIN workers
    /\ \/ WorkerMarkProcessing(j)
       \/ WorkerRunPipeline(j)
       \/ WorkerMarkCompleted(j)
       \/ WorkerMarkFailed(j)

\* Every started thread keeps running while it has a step to take; the
\* pipeline call it makes returns or raises.
WorkersScheduled == \A j \in 1..MaxJobs : WF_vars(WorkerStep(j))

SpecScheduled == Init /\ [][Next]_vars /\ WorkersScheduled

\* C23: every extraction job that is created eventually has the status
\* completed or failed.
C23_EveryJobTerminates ==
    \A j \in 1..MaxJobs :
        (j \in DOMAIN jobs) ~> (j \in DOMAIN jobs /\ jobs[j].status \in Terminal)

(***************************************************************************)
(* The worker thread with the pipeline it calls: _run_etl_background runs  *)
(* run_wallet_pipeline([address]) step by step. One pipeline call is in    *)
(* progress at a time.                                                     *)
(***************************************************************************)

\* A worker is inside run_wallet_pipeline.
InPipeline == {j \in DOMAIN workers : workers[j].pc = "pipeline"}

\* run_wallet_pipeline([address]) is entered.
WorkerCallsPipeline(j) ==
    /\ workers[j].pc = "run"
    /\ InPipeline = {}
    /\ run.calls < MaxCalls
    /\ run' = [IdleRun EXCEPT !.pc = "fetch_transactions", !.addrs = <<jobs[j].address>>,
                              !.i = 1, !.calls = run.calls + 1]
    /\ workers' = [workers EXCEPT ![j].pc = "pipeline", ![j].calls = @ + 1]
    /\ UNCHANGED <<jobs, req, resp, storeVars, logVars, clock, upstream, raw, features,
                   callVars>>

\* run_wallet_pipeline returned.
WorkerPipelineReturns(j) ==
    /\ workers[j].pc = "pipeline"
    /\ run.pc = "returned"
    /\ workers' = [workers EXCEPT ![j].pc = "ran"]
    /\ UNCHANGED <<jobs, req, resp, storeVars, logVars, pipeVars, callVars>>

\* run_wallet_pipeline raised: except Exception as exc.
WorkerPipelineRaises(j) ==
    /\ workers[j].pc = "pipeline"
    /\ run.pc = "raised"
    /\ workers' = [workers EXCEPT ![j].pc = "except",
                                  ![j].exc = Some([type |-> run.exc[1], msg |-> ""]),
                                  ![j].raised = TRUE]
    /\ UNCHANGED <<jobs, req, resp, storeVars, logVars, pipeVars, callVars>>

\* The wallet AddrA has transfers upstream and any of the balance lists.
InitJobPipe ==
    /\ InitJobs
    /\ InitStore
    /\ clock = Clock0
    /\ upstream \in {feed \in Feeds : feed.transfers # <<>>}
    /\ raw = {}
    /\ features = {}
    /\ run = IdleRun
    /\ InitCalls

\* The addresses the client asks for: one wallet in two spellings, and a
\* string that is no address.
ClientAddresses == {AddrA, AddrAUpper, AddrNotHex}

\* The requests of one client, one at a time, and the workers they start.
NextJobPipe ==
    \/ \E a \in ClientAddresses : ExtractValidate(1, a)
    \/ ExtractCheck(1)
    \/ ExtractCreate(1)
    \/ \E j \in DOMAIN workers : WorkerMarkProcessing(j)
    \/ \E j \in DOMAIN workers : WorkerCallsPipeline(j)
    \/ PipeFetchTransactions
    \/ PipeFetchTokenBalances
    \/ PipePutTransactions
    \/ PipePutPositions
    \/ PipeUpsertWallets
    \/ PipeInsertTransactions
    \/ PipeUpsertPositions
    \/ PipeCalculateScores
    \/ PipeUpsertFeatures
    \/ \E j \in DOMAIN workers : WorkerPipelineReturns(j)
    \/ \E j \in DOMAIN workers : WorkerPipelineRaises(j)
    \/ \E j \in DOMAIN workers : WorkerMarkCompleted(j)
    \/ \E j \in DOMAIN workers : WorkerMarkFailed(j)

SpecJobPipe == InitJobPipe /\ [][NextJobPipe]_vars

\* The features rows of exactly the address the job was created with.
RecordsOf(j, table) == {f \in table : f.address = jobs[j].address}

\* C24: a job that is completed has a features row for its address in the
\* store; the job is set to completed only by its worker after the pipeline
\* call of that worker returned, and that call returns only with the row of
\* the job's address, for the day of the run, written.
C24_CompletedJobHasRecord ==
    [][\A j \in DOMAIN jobs' :
          /\ jobs'[j].status = "completed" => RecordsOf(j, features') # {}
          /\ (j \in DOMAIN jobs /\ jobs[j].status # "completed"
                /\ jobs'[j].status = "completed") =>
                 /\ workers[j].pc = "ran"
                 /\ RecordsOf(j, features) # {}
          /\ (j \in DOMAIN workers /\ workers[j].pc # "ran" /\ workers'[j].pc = "ran") =>
                 /\ run.pc = "returned"
                 /\ run.addrs = <<jobs[j].address>>
                 /\ run.done = {1}
                 /\ \E f \in RecordsOf(j, features) : f.date = WholeDays(run.now)
      ]_vars

\* A job for the wallet in capital letters is completed and its row is stored.
C24_Witness ==
    /\ Len(jobs) >= 1
    /\ jobs[1].status = "completed"
    /\ jobs[1].address = AddrAUpper
    /\ workers[1].pc = "done"
    /\ \E f \in features : f.address = AddrAUpper

\* Everything a pipeline run writes.
Written == <<raw, wallets, transactions, positions, features>>

\* C25: from the moment the loop turns to an address until its two fetches
\* are done nothing is written, a fetch that raises ends the call, and a call
\* that has ended writes nothing more: when a fetch fails for an address, the
\* archive and the wallet, transaction, position and features rows are as
\* they were when the loop turned to that address.
C25_FailedFetchWritesNothing ==
    [][/\ run.pc \in {"fetch_transactions", "fetch_token_balances"} =>
             /\ Written' = Written
             /\ run'.pc \in {"fetch_transactions", "fetch_token_balances",
                             "put_transactions", "raised"}
             /\ run'.pc = "raised" => run'.i = run.i /\ run'.done = run.done
       /\ run.pc = "raised" =>
             /\ Written' = Written
             /\ run' = run \/ run'.calls = run.calls + 1
      ]_vars

\* The first address of a batch was processed, the fetch for the second one,
\* a wallet nothing was stored for before, raised: nothing is stored for it.
C25_Witness ==
    /\ run.pc = "raised"
    /\ run.exc = Some("RuntimeError")
    /\ run.addrs = <<AddrA, AddrB>>
    /\ run.i = 2
    /\ run.done = {1}
    /\ \E f \in features : f.address = AddrA
    /\ ~\E f \in features : f.address = AddrB
    /\ ~\E w \in wallets : w.address = AddrB
    /\ ~\E o \in raw : o.key[3] = AddrB

\* C26: every stored wallet row that has both watermarks has
\* first_seen <= last_seen, in whatever order the transfers were listed and
\* also when there were none.
C26_WatermarkOrdered ==
    \A w \in wallets :
        (w.first_seen # None /\ w.last_seen # None) => w.first_seen[1] <= w.last_seen[1]

(***************************************************************************)
(* Binary floating point. Python's float is an IEEE 754 double: 53         *)
(* significant bits, every result rounded to the nearest double, ties to   *)
(* the even one. A positive double is [hex, exp] as float.hex() prints it, *)
(* 0x1.<hex>p<exp>: the value is 1.<hex> (13 hexadecimal digits) times     *)
(* 2^exp. Numbers are sequences of bits, most significant first.           *)
(***************************************************************************)

\* The significant bits of a double.
MantissaBits == 53

Double(hex, exp) == [hex |-> hex, exp |-> exp]

\* Bit number k (1 the highest) of the four bits of a hexadecimal digit value.
NibbleBit(v, k) == (v \div (2 ^ (4 - k))) % 2

\* The bits of a sequence of hexadecimal digit values, four for each.
HexBits(digits) ==
    [i \in 1..(4 * Len(digits)) |-> NibbleBit(digits[((i - 1) \div 4) + 1], ((i - 1) % 4) + 1)]

\* The hexadecimal digit values of the significand, the leading 1 first:
\* 14 digits, the first of them 1.
Significand(d) == <<1>> \o [i \in 1..Len(d.hex) |-> DigitValue(d.hex[i], 16)]

RECURSIVE LongDivide(_, _, _, _)
\* digits divided by the small integer n: the quotient, as many digits as the
\* dividend has, and the remainder.
LongDivide(digits, n, r, acc) ==
    IF digits = <<>> THEN [q |-> acc, r |-> r]
    ELSE LongDivide(Tail(digits), n, (16 * r + Head(digits)) % n,
                    Append(acc, (16 * r + Head(digits)) \div n))

RECURSIVE TimesSmall(_, _, _)
\* digits times the small integer k, with the carry coming from the right.
TimesSmall(digits, k, carry) ==
    IF digits = <<>>
      THEN IF carry = 0 THEN <<>> ELSE Append(TimesSmall(<<>>, k, carry \div 16), carry % 16)
      ELSE LET t == digits[Len(digits)] * k + carry
           IN  Append(TimesSmall(SubSeq(digits, 1, Len(digits) - 1), k, t \div 16), t % 16)

\* The bits from the first 1 on.
StripZeros(bits) ==
    LET ones == {i \in 1..Len(bits) : bits[i] = 1}
    IN  IF ones = {} THEN <<>>
        ELSE SubSeq(bits, CHOOSE i \in ones : \A j \in ones : i <= j, Len(bits))

\* bits + 1, one bit longer when every bit was 1.
PlusOne(bits) ==
    LET zeros == {i \in 1..Len(bits) : bits[i] = 0}
        last == CHOOSE i \in zeros : \A j \in zeros : j <= i
    IN  IF zeros = {} THEN <<1>> \o [i \in 1..Len(bits) |-> 0]
        ELSE [i \in 1..Len(bits) |-> IF i < last THEN bits[i] ELSE IF i = last THEN 1 ELSE 0]

\* The 13 hexadecimal digits of 53 bits that begin with 1.
BitsHex(bits) ==
    [i \in 1..13 |->
        HexDigits[8 * bits[4 * i - 2] + 4 * bits[4 * i - 1] + 2 * bits[4 * i]
                  + bits[4 * i + 1] + 1]]

\* The double nearest to the number whose bits are `bits` (at least 54 of
\* them, the first one 1, its place being 2^exp), `inexact` telling that
\* more was cut off below them; ties go to the even significand.
RoundToDouble(bits, inexact, exp) ==
    LET kept == SubSeq(bits, 1, MantissaBits)
        guard == bits[MantissaBits + 1]
        sticky == inexact \/ \E i \in (MantissaBits + 2)..Len(bits) : bits[i] = 1
        up == guard = 1 /\ (sticky \/ kept[MantissaBits] = 1)
        rounded == IF up THEN PlusOne(kept) ELSE kept
    IN  IF Len(rounded) > MantissaBits
          THEN Double(BitsHex(SubSeq(rounded, 1, MantissaBits)), exp + 1)
          ELSE Double(BitsHex(rounded), exp)

\* d / n for an integer 1 <= n < 256
FloatDivide(d, n) ==
    LET dividend == Significand(d) \o <<0, 0, 0>>
        division == LongDivide(dividend, n, 0, <<>>)
        all == HexBits(division.q)
        quotient == StripZeros(all)
    \* the leading digit 1 of the dividend is the fourth of the bits
    IN  RoundToDouble(quotient, division.r # 0, d.exp - (Len(all) - Len(quotient) - 3))

\* d * k for an integer 1 <= k < 256
FloatTimes(d, k) ==
    LET product == StripZeros(HexBits(TimesSmall(Significand(d) \o <<0>>, k, 0)))
    \* a product of 57 bits is the significand, 53 bits, times 16 when k = 1
    IN  RoundToDouble(product, FALSE, d.exp + Len(product) - MantissaBits - 4)

\* a > b for two sequences of bits of one length
BitsGreater(a, b) ==
    \E i \in 1..Len(a) : a[i] > b[i] /\ \A j \in 1..(i - 1) : a[j] = b[j]

\* a > b for two positive doubles
FloatGreater(a, b) ==
    \/ a.exp > b.exp
    \/ a.exp = b.exp /\ BitsGreater(HexBits(Significand(a)), HexBits(Significand(b)))

(***************************************************************************)
(* The large-transfer count of calculate_risk_score in floating point      *)
(* (daily_job.py:178-189): transfer values are JSON numbers with a         *)
(* fraction, as Alchemy reports amounts of ether.                          *)
(***************************************************************************)

\* A JSON number that is no integer, as the double json.loads makes of it.
JFloat(d) == [t |-> "float", d |-> d]

\* 0.11 == 0x1.c28f5c28f5c29p-4
Eth011 == Double(<<"c", "2", "8", "f", "5", "c", "2", "8", "f", "5", "c", "2", "9">>, -4)

\* 0.21 == 0x1.ae147ae147ae1p-3
Eth021 == Double(<<"a", "e", "1", "4", "7", "a", "e", "1", "4", "7", "a", "e", "1">>, -3)

\* 0.3 == 0x1.3333333333333p-2
Eth03 == Double(<<"3", "3", "3", "3", "3", "3", "3", "3", "3", "3", "3", "3", "3">>, -2)

\* 0.5 == 0x1.0000000000000p-1
Eth05 == Double(<<"0", "0", "0", "0", "0", "0", "0", "0", "0", "0", "0", "0", "0">>, -1)

\* 1.0 == 0x1.0000000000000p+0
Eth1 == Double(<<"0", "0", "0", "0", "0", "0", "0", "0", "0", "0", "0", "0", "0">>, 0)

\* 2.5 == 0x1.4000000000000p+1
Eth25 == Double(<<"4", "0", "0", "0", "0", "0", "0", "0", "0", "0", "0", "0", "0">>, 1)

FloatValues == {Eth011, Eth021, Eth03, Eth05, Eth1, Eth25}

\* The most transfers in a window.
MaxWindow == 12

\* n transfers of yesterday: the one at `place` is worth v, the others 0.
Window(v, n, place) ==
    [k \in 1..n |->
        [hash |-> "0xh", blockNum |-> JNull, ts |-> Clock0 - Days(1),
         value |-> IF k = place THEN JFloat(v) ELSE JNum(0), category |-> "external",
         contract |-> None]]

Windows ==
    {Window(v, n, place) : v \in FloatValues, n \in 1..MaxWindow, place \in 1..2}

\* large_txs of calculate_risk_score for a window with at most one value
\* that is not 0: sum(tx_values) is then that value exactly, avg_value is
\* the sum divided by the count, and a value is large when it is above
\* avg_value * 10, each operation rounded to a double.
LargeTxs(txs, now) ==
    LET recent_tx == RecentTx(txs, now, 30)
        worth == SelectSeq(recent_tx, LAMBDA tx : tx.value.t = "float")
    IN  IF worth = <<>> THEN 0
        ELSE LET avg_value == FloatDivide(worth[1].value.d, Len(recent_tx))
                 threshold == FloatTimes(avg_value, 10)
             IN  Len(SelectSeq(worth, LAMBDA tx : FloatGreater(tx.value.d, threshold)))

\* calculate_risk_score has been called for a wallet that holds a token.
InitLargeTx ==
    /\ InitJobs
    /\ InitStore
    /\ InitPipeIdle
    /\ fetch = IdleFetch
    /\ \E txs \in Windows :
           calc = [IdleCalc EXCEPT !.pc = "called", !.transactions = txs,
                                   !.positions = <<PosUsdt>>]

\* The scorer counts the window and its large transfers.
CalcLargeTx ==
    /\ calc.pc = "called"
    /\ calc' = [calc EXCEPT
                  !.pc = "returned",
                  !.now = clock,
                  !.locals = Some([recent_tx |-> Len(RecentTx(calc.transactions, clock, 30)),
                                   large_txs |-> LargeTxs(calc.transactions, clock)])]
    /\ UNCHANGED <<jobVars, storeVars, logVars, pipeVars, fetch>>

NextLargeTx == CalcLargeTx

SpecLargeTx == InitLargeTx /\ [][NextLargeTx]_vars

\* C27: the number k of large transfers among the n transfers of the window
\* satisfies 10 * k < n, so that large_tx_ratio = k / n is 0 for 10 or fewer
\* transfers and always below 0.1.
C27_LargeTxRatioBelowTenth ==
    calc.pc = "returned" => 10 * calc.locals[1].large_txs < calc.locals[1].recent_tx

(***************************************************************************)
(* extract_wallet with addresses at the edge of the format                 *)
(***************************************************************************)

\* A valid address followed by a newline, as the path /extract/0xaa...a%0A
\* carries it.
AddrNewline == AddrA \o <<"\n">>

EdgeAddresses == {AddrA, AddrNotHex, AddrShort, AddrNewline}

NextEdge ==
    \/ \E t \in Threads, a \in EdgeAddresses : ExtractValidate(t, a)
    \/ \E t \in Threads : ExtractCheck(t)
    \/ \E t \in Threads : ExtractCreate(t)
    \/ \E j \in DOMAIN workers : WorkerMarkProcessing(j)
    \/ \E j \in DOMAIN workers : WorkerRunPipeline(j)
    \/ \E j \in DOMAIN workers : WorkerMarkCompleted(j)
    \/ \E j \in DOMAIN workers : WorkerMarkFailed(j)

SpecEdge == Init /\ [][NextEdge]_vars

\* "0x" followed by exactly 40 hexadecimal characters.
WellFormed(address) ==
    /\ Len(address) = 42
    /\ address[1] = "0"
    /\ address[2] = "x"
    /\ \A i \in 3..42 : address[i] \in HexChars

\* C28: a request passes the validation only with an address that is "0x"
\* followed by exactly 40 hexadecimal characters, and every job is for such
\* an address; a request answered with 400 leaves the job table and the
\* workers as they were; a request that creates a job is answered with that
\* job, pending, while its worker has not yet taken a step.
C28_InvalidAddressRejected ==
    [][/\ \A t \in Threads :
              (req[t].pc = "idle" /\ req'[t].pc # "idle") => WellFormed(req'[t].address)
       /\ \A j \in DOMAIN jobs' : WellFormed(jobs'[j].address)
       /\ (resp' # resp /\ resp'.code = 400) => jobs' = jobs /\ workers' = workers
       /\ Len(jobs') > Len(jobs) =>
              /\ resp'.code = 202
              /\ resp'.job = Len(jobs')
              /\ resp'.status = "pending"
              /\ jobs'[Len(jobs')].status = "pending"
              /\ workers'[Len(jobs')].pc = "start"
      ]_vars

====
